---- MODULE Spec2Model ----
\* Verification model of the background service worker of bookmark-is-learned:
\* the deep-fetch sandbox (fetchPageContent / extractPageContent), the request
\* orchestrator (handleTLDRRequest) and the Markdown persistence pipeline
\* (saveMarkdownFile and its three tiers).
\*
\* Every async function is modelled as a small state machine whose actions are
\* the code segments between two awaits; the chrome.* APIs, the DOM of the
\* background tab, the stored settings and the LLM provider are the
\* environment and answer nondeterministically.
EXTENDS Integers, Sequences, FiniteSets, TLC

\* ------------------------------------------------------------------------
\* Values
\* ------------------------------------------------------------------------

\* JavaScript null (also the value of a FetchedContent that was not obtained).
NULL == [kind |-> "null"]

\* A URL string, kept as the components the WHATWG parser splits it into:
\* scheme ("" when the string has none), host as written, path segments, and
\* the query/fragment tail ("" when absent).
Url(scheme, host, path, tail) == [scheme |-> scheme, host |-> host, path |-> path, tail |-> tail]

\* The empty string '' (falsy, used for "no URL detected" as well).
EmptyUrl == Url("", "", <<>>, "")

\* `new URL(s)` throws for a string without a scheme or without a host.
UrlParses(u) == u.scheme # "" /\ u.host # ""

\* The parser lower-cases the host: URL.hostname.
hostname(u) == CASE u.host = "X.COM" -> "x.com"
                 [] u.host = "Twitter.com" -> "twitter.com"
                 [] OTHER -> u.host

\* Path segments that consist of decimal digits only (\d+).
NumericSegments == {"1234567890123", "9876543210987", "5555555555555", "1234567890", "123456789", "1"}

IsDigits(s) == s \in NumericSegments

ALLOWED_FETCH_HOSTS == {"x.com", "twitter.com", "mobile.twitter.com"}

\* isAllowedFetchUrl with a substring test in place of the exact comparison.
isAllowedFetchUrl_Includes(url) ==
  UrlParses(url) /\ hostname(url) \in ALLOWED_FETCH_HOSTS \cup {"sub.x.com", "x.com.evil.com"}

isAllowedFetchUrl(url) == UrlParses(url) /\ hostname(url) \in ALLOWED_FETCH_HOSTS

\* pageUrl.match(/\/(\d{10,})(?:\/|$)/): the first path segment made of at
\* least ten digits that is followed by "/" or by the end of the string (a
\* query or fragment after the last segment prevents the match).
IdPositions(url) == {i \in DOMAIN url.path : /\ IsDigits(url.path[i])
                                             /\ Len(url.path[i]) >= 10
                                             /\ (i < Len(url.path) \/ url.tail = "")}

expectedIdOf(url) == IF IdPositions(url) = {} THEN ""
                     ELSE url.path[CHOOSE i \in IdPositions(url) : \A j \in IdPositions(url) : i <= j]

\* /\/(articles?)\//i.test(pageUrl): a segment "article(s)" followed by "/".
isArticleUrlOf(url) == \E i \in DOMAIN url.path :
                          /\ url.path[i] \in {"article", "articles", "Article"}
                          /\ i < Len(url.path)

\* window.location.href.indexOf(expectedId) !== -1
HrefContains(href, id) == \E i \in DOMAIN href.path : href.path[i] = id

\* A page the single-page app may still be showing when the tab is polled.
PreviousPage == Url("https", "x.com", <<"carol", "status", "5555555555555">>, "")

\* What the background tab can be displaying for a requested URL.
Hrefs(url) == {url, PreviousPage}

\* FetchedContent values: the structured/heading extractors give a title, the
\* thread collector gives title ''.
ArticleDoc == [kind |-> "content", title |-> "Title", body |-> "page text"]
ThreadDoc == [kind |-> "content", title |-> "", body |-> "thread text"]

Truthy(content) == content # NULL

\* What the DOM of the background tab can offer at one poll.
DomFeatures == {"articleSelector", "tweets", "headings", "bulk"}

maxAttempts == 16

\* ------------------------------------------------------------------------
\* State
\* ------------------------------------------------------------------------
VARIABLES
  f_pc,        \* position inside fetchPageContent
  f_url,       \* its pageUrl argument
  f_caller,    \* who awaits the call: "harness", "article" or "quoted"
  f_ret,       \* the value the call resolved with
  f_rejected,  \* TRUE iff the promise of fetchPageContent rejected
  tabId,       \* local tabId (0 is null)
  results,     \* extraction result delivered by executeScript
  attempts,    \* extractPageContent's poll counter
  href,        \* window.location.href of the background tab
  pollHref,    \* the href seen by the poll that resolved the extraction
  tabSeq,      \* last tab id handed out by chrome.tabs.create
  openTabs,    \* tabs currently open
  createdTabs, \* tabs created by fetchPageContent, with the URL they were created for
  removeCalls  \* number of chrome.tabs.remove calls of the current fetch

fetchVars == <<f_pc, f_url, f_caller, f_ret, f_rejected, tabId, results, attempts, href,
               pollHref, tabSeq, openTabs, createdTabs, removeCalls>>

VARIABLES
  h_pc,              \* position inside handleTLDRRequest ("off" when no request runs)
  tweetData,         \* the post record of the GENERATE_TLDR message
  articleUrl,        \* message.articleUrl
  quotedTweetUrl,    \* message.quotedTweetUrl
  senderTabId,       \* sender.tab.id of the message (0 when there is none)
  settings,          \* the settings snapshot read at line 492
  articleContent,    \* local articleContent
  quotedFullContent, \* local quotedFullContent
  apiKey,            \* decrypted key ("" until decrypted)
  prompt,            \* result of buildPrompt
  maxTokens,         \* output-token budget
  endpoint,          \* result of resolveApiEndpoint
  outcome,           \* how handleTLDRRequest settled: result record or error
  steps,             \* the steps of the request, in the order they started
  encryptedApiKey,   \* localData.encryptedApiKey as read at line 530
  httpRequests,      \* provider HTTP requests sent (endpoints)
  nativeCalls        \* call_claude requests sent to the native helper

reqVars == <<h_pc, tweetData, articleUrl, quotedTweetUrl, senderTabId, settings, articleContent,
             quotedFullContent, apiKey, prompt, maxTokens, endpoint, outcome, steps,
             encryptedApiKey, httpRequests, nativeCalls>>

VARIABLES
  l_pc,        \* position inside the GENERATE_TLDR listener's then-handler
  response,    \* what sendResponse was called with (NULL before)
  s_pc,        \* position inside saveMarkdownFile
  lastSave,    \* chrome.storage.local lastSave record
  tierLog,     \* save tiers attempted by this run, with what each reported
  downloadId,  \* id returned by chrome.downloads.download (0 before)
  delta,       \* the last chrome.downloads.onChanged delta delivered to onChanged
  timers       \* timers armed by setTimeout and not fired yet

saveVars == <<l_pc, response, s_pc, lastSave, tierLog, downloadId, delta, timers>>

VARIABLES
  history,     \* chrome.storage.local history (newest entry first)
  hist_pc,     \* position of each saveToHistory call
  hist_arg,    \* arguments of each saveToHistory call
  hist_list,   \* local `history` array of each call
  clock,       \* Date.now(), counted in entries built
  created      \* every entry saveToHistory has built, as built

histVars == <<history, hist_pc, hist_arg, hist_list, clock, created>>

VARIABLES
  permission,     \* what ensureBaseUrlPermission found ("" before the check)
  reply,          \* what the provider's fetch or the native host delivered (NULL before)
  providerResult, \* how the promise of the provider call settled
  storage,        \* chrome.storage values the settings page writes, where they are followed
  atStart,        \* what storage held when the GENERATE_TLDR message arrived
  popup,          \* position inside the settings page's saveSettings
  call,           \* the function applied on its own ("" before the call)
  args,           \* its arguments
  ret             \* what it returned (NULL before)

VARIABLES
  activeCards, \* content.js activeCards: the cards shown, oldest first
  cardSeq,     \* content.js cardSeq
  inFlight,    \* cards whose processBookmark has not called updateCard yet
  dropped,     \* cards whose updateCard found no card to render into
  page,        \* the DOM of the tab extractPageContent runs in
  pollTimer,   \* TRUE while the setInterval timer of extractPageContent is set
  resolves     \* number of resolve calls of the promise of the function applied

VARIABLES
  listeners, \* the listeners waitForTabLoad has registered and not removed
  loadTimer, \* TRUE while the setTimeout timer of waitForTabLoad is pending
  elapsed \* seconds since waitForTabLoad was called

VARIABLES
  clearHistoryPending, \* popup.js clearHistoryPending
  clearHistoryTimer, \* TRUE while the timer kept in popup.js clearHistoryTimer is pending
  btn, \* the state of the clear button: "plain" or "confirming"
  clicks, \* clicks on the clear button so far
  clearWrites, \* storage writes of the empty list requested and not yet settled
  cleared \* the entries that were stored when a write of the empty list was applied

VARIABLES
  syncApiKey, \* the plaintext apiKey in chrome.storage.sync ("" when absent)
  encKey, \* the key in chrome.storage.local encKey (0 when absent)
  localBlob, \* chrome.storage.local encryptedApiKey (NULL when absent)
  keySeq, \* number of keys crypto.subtle.generateKey has produced
  keyCall \* for each caller of the key functions: position, key held, purpose, plaintext to encrypt, ciphertext, decrypted text

uiVars == <<activeCards, cardSeq, inFlight, dropped, page, pollTimer, resolves, listeners, loadTimer, elapsed, clearHistoryPending, clearHistoryTimer, btn, clicks, clearWrites, cleared, syncApiKey, encKey, localBlob, keySeq, keyCall>>

envVars == <<permission, reply, providerResult, storage, atStart, popup, call, args, ret, uiVars>>

vars == <<fetchVars, reqVars, saveVars, histVars, envVars>>

\* ------------------------------------------------------------------------
\* fetchPageContent (part_002 628-662), waitForTabLoad (664-687),
\* extractPageContent (691-813)
\* ------------------------------------------------------------------------

\* `if (tabId)` of the catch block (line 659): a tab was created and has not
\* been removed by this call yet.
CatchNeedsRemove_Never(t) == FALSE

CatchNeedsRemove(t) == t # 0

\* `catch (__) { /* ignore */ }` around the catch block's own tabs.remove.
InnerRemoveSwallowed_Not == FALSE

InnerRemoveSwallowed == TRUE

\* The identity guard of a poll (line 704).
IdentityMismatch_Off(expectedId, location) == FALSE

IdentityMismatch(expectedId, location) == expectedId # "" /\ ~HrefContains(location, expectedId)

Wait == [kind |-> "wait"]

\* One tick of the setInterval callback (lines 696-811): Wait when the tick
\* returns without resolving, else the value the promise resolves with.
PollOutcome(expectedId, isArticleUrl, location, n, dom) ==
  IF IdentityMismatch(expectedId, location)
  THEN IF n < maxAttempts THEN Wait ELSE NULL
  ELSE IF "articleSelector" \in dom THEN ArticleDoc
  ELSE IF ~isArticleUrl /\ "tweets" \in dom THEN ThreadDoc
  ELSE IF "headings" \in dom THEN ArticleDoc
  ELSE IF n >= maxAttempts THEN (IF "bulk" \in dom THEN ArticleDoc ELSE NULL)
  ELSE Wait

\* (results && results[0] && results[0].result) || null
ResultOf(r) == IF Truthy(r) THEN r ELSE NULL

\* The synchronous head of fetchPageContent: the allow-list check, the ID and
\* article-hint extraction, and the call of chrome.tabs.create.
FetchCall(url, who) ==
  /\ f_url' = url
  /\ f_caller' = who
  /\ tabId' = 0
  /\ results' = NULL
  /\ attempts' = 0
  /\ pollHref' = EmptyUrl
  /\ f_rejected' = FALSE
  /\ removeCalls' = 0
  /\ f_ret' = NULL
  /\ f_pc' = IF isAllowedFetchUrl(url) THEN "create" ELSE "returned"
  /\ UNCHANGED <<href, tabSeq, openTabs, createdTabs>>

\* Entering the catch block (line 658) from a rejected await: the values of
\* the try block are out of reach, the block removes the tab when there is one
\* and returns null.
EnterCatch ==
  /\ IF CatchNeedsRemove(tabId)
     THEN f_pc' = "catch" /\ UNCHANGED f_ret
     ELSE f_pc' = "returned" /\ f_ret' = NULL
  /\ results' = NULL
  /\ attempts' = 0
  /\ pollHref' = EmptyUrl

\* chrome.tabs.create resolves: line 642-645, waitForTabLoad starts.
TabsCreateResolves ==
  /\ f_pc = "create"
  /\ tabSeq' = tabSeq + 1
  /\ openTabs' = openTabs \cup {tabSeq + 1}
  /\ createdTabs' = createdTabs \cup {[id |-> tabSeq + 1, url |-> f_url]}
  /\ tabId' = tabSeq + 1
  /\ \E h \in Hrefs(f_url) : href' = h
  /\ f_pc' = "waitLoad"
  /\ UNCHANGED <<f_url, f_caller, f_ret, f_rejected, results, attempts, pollHref, removeCalls>>
  /\ UNCHANGED <<reqVars, saveVars, histVars, envVars>>

\* chrome.tabs.create rejects: the catch block runs with tabId === null.
TabsCreateRejects ==
  /\ f_pc = "create"
  /\ EnterCatch
  /\ UNCHANGED <<f_url, f_caller, f_rejected, tabId, href, tabSeq, openTabs, createdTabs,
                 removeCalls>>
  /\ UNCHANGED <<reqVars, saveVars, histVars, envVars>>

\* waitForTabLoad: onUpdated reports status 'complete' (line 670-675).
OnUpdatedComplete ==
  /\ f_pc = "waitLoad"
  /\ tabId \in openTabs
  /\ f_pc' = "sleep"
  /\ UNCHANGED <<f_url, f_caller, f_ret, f_rejected, tabId, results, attempts, href, pollHref,
                 tabSeq, openTabs, createdTabs, removeCalls>>
  /\ UNCHANGED <<reqVars, saveVars, histVars, envVars>>

\* waitForTabLoad: the 15 s timer fires (line 685).
LoadTimeout ==
  /\ f_pc = "waitLoad"
  /\ f_pc' = "sleep"
  /\ UNCHANGED <<f_url, f_caller, f_ret, f_rejected, tabId, results, attempts, href, pollHref,
                 tabSeq, openTabs, createdTabs, removeCalls>>
  /\ UNCHANGED <<reqVars, saveVars, histVars, envVars>>

\* The user (or a crash) closes the background tab while the fetch waits for
\* the load, sleeps, or is about to remove the tab; waitForTabLoad's onRemoved
\* listener (line 677-682) resolves the wait.
TabClosedByUser ==
  /\ f_pc \in {"waitLoad", "sleep", "remove"}
  /\ tabId \in openTabs
  /\ openTabs' = openTabs \ {tabId}
  /\ f_pc' = IF f_pc = "waitLoad" THEN "sleep" ELSE f_pc
  /\ UNCHANGED <<f_url, f_caller, f_ret, f_rejected, tabId, results, attempts, href, pollHref,
                 tabSeq, createdTabs, removeCalls>>
  /\ UNCHANGED <<reqVars, saveVars, histVars, envVars>>

\* sleep(4000) resolves; chrome.scripting.executeScript is called (line 646-648).
SleepDone ==
  /\ f_pc = "sleep"
  /\ f_pc' = "exec"
  /\ UNCHANGED <<f_url, f_caller, f_ret, f_rejected, tabId, results, attempts, href, pollHref,
                 tabSeq, openTabs, createdTabs, removeCalls>>
  /\ UNCHANGED <<reqVars, saveVars, histVars, envVars>>

\* The script is injected and extractPageContent starts its interval.
ExecuteScriptStarts ==
  /\ f_pc = "exec"
  /\ tabId \in openTabs
  /\ f_pc' = "poll"
  /\ attempts' = 0
  /\ UNCHANGED <<f_url, f_caller, f_ret, f_rejected, tabId, results, href, pollHref, tabSeq,
                 openTabs, createdTabs, removeCalls>>
  /\ UNCHANGED <<reqVars, saveVars, histVars, envVars>>

\* executeScript rejects: the tab is gone already, the page cannot be
\* scripted, or the tab is closed while the script runs.
ExecuteScriptRejects ==
  /\ f_pc \in {"exec", "poll"}
  /\ \E closedNow \in BOOLEAN :
       openTabs' = IF closedNow THEN openTabs \ {tabId} ELSE openTabs
  /\ EnterCatch
  /\ UNCHANGED <<f_url, f_caller, f_rejected, tabId, href, tabSeq, createdTabs, removeCalls>>
  /\ UNCHANGED <<reqVars, saveVars, histVars, envVars>>

\* The single-page app navigates the tab (to the requested page, or away).
Navigate ==
  /\ f_pc = "poll"
  /\ tabId \in openTabs
  /\ \E h \in Hrefs(f_url) \ {href} : href' = h
  /\ UNCHANGED <<f_pc, f_url, f_caller, f_ret, f_rejected, tabId, results, attempts, pollHref,
                 tabSeq, openTabs, createdTabs, removeCalls>>
  /\ UNCHANGED <<reqVars, saveVars, histVars, envVars>>

\* One tick of extractPageContent's interval; when it resolves (the interval
\* is cleared and the script's frame ends), executeScript resolves and
\* chrome.tabs.remove is called (line 654).
Poll ==
  /\ f_pc = "poll"
  /\ tabId \in openTabs
  /\ attempts < maxAttempts
  /\ \E dom \in SUBSET DomFeatures :
       LET r == PollOutcome(expectedIdOf(f_url), isArticleUrlOf(f_url), href, attempts + 1, dom)
       IN IF r = Wait
          THEN /\ attempts' = attempts + 1
               /\ UNCHANGED <<f_pc, results, pollHref>>
          ELSE /\ attempts' = 0
               /\ results' = r
               /\ pollHref' = href
               /\ f_pc' = "remove"
  /\ UNCHANGED <<f_url, f_caller, f_ret, f_rejected, tabId, href, tabSeq, openTabs, createdTabs,
                 removeCalls>>
  /\ UNCHANGED <<reqVars, saveVars, histVars, envVars>>

\* `await chrome.tabs.remove(tabId); tabId = null; return ...` (line 654-657).
\* tabs.remove rejects when the tab no longer exists.
TabsRemove ==
  /\ f_pc = "remove"
  /\ removeCalls' = removeCalls + 1
  /\ IF tabId \in openTabs
     THEN /\ openTabs' = openTabs \ {tabId}
          /\ tabId' = 0
          /\ f_ret' = ResultOf(results)
          /\ f_pc' = "returned"
          /\ UNCHANGED <<results, attempts, pollHref>>
     ELSE /\ EnterCatch
          /\ UNCHANGED <<openTabs, tabId>>
  /\ UNCHANGED <<f_url, f_caller, f_rejected, href, tabSeq, createdTabs>>
  /\ UNCHANGED <<reqVars, saveVars, histVars, envVars>>

\* The catch block: `try { await chrome.tabs.remove(tabId); } catch (__) {}`
\* then `return null` (line 659-660).
CatchRemove ==
  /\ f_pc = "catch"
  /\ removeCalls' = removeCalls + 1
  /\ IF tabId \in openTabs
     THEN openTabs' = openTabs \ {tabId} /\ UNCHANGED f_rejected
     ELSE UNCHANGED openTabs /\ f_rejected' = ~InnerRemoveSwallowed
  /\ f_ret' = NULL
  /\ f_pc' = "returned"
  /\ UNCHANGED <<f_url, f_caller, tabId, results, attempts, href, pollHref, tabSeq, createdTabs>>
  /\ UNCHANGED <<reqVars, saveVars, histVars, envVars>>

FetchStep ==
  \/ TabsCreateResolves
  \/ TabsCreateRejects
  \/ OnUpdatedComplete
  \/ LoadTimeout
  \/ TabClosedByUser
  \/ SleepDone
  \/ ExecuteScriptStarts
  \/ ExecuteScriptRejects
  \/ Navigate
  \/ Poll
  \/ TabsRemove
  \/ CatchRemove

\* ------------------------------------------------------------------------
\* handleTLDRRequest (part_002 491-571), resolveApiEndpoint (573-600),
\* ensureBaseUrlPermission (602-624), buildPrompt (817-914)
\* ------------------------------------------------------------------------

RECURSIVE Repeat(_, _)
Repeat(str, n) == IF n = 0 THEN "" ELSE str \o Repeat(str, n - 1)

\* The inline-preview threshold of line 513.
QuoteThreshold == 500

Post(text, cardText, fallbackText, quotedText) ==
  [text |-> text, cardText |-> cardText, fallbackText |-> fallbackText, quotedText |-> quotedText]

Providers == {"openai", "claude", "kimi", "zhipu", "local-claude", "gemini"}

V1 == "v1"

PROVIDER_DEFAULT_ENDPOINTS(provider) ==
  CASE provider = "openai" -> Url("https", "api.openai.com", <<V1, "chat", "completions">>, "")
    [] provider = "claude" -> Url("https", "api.anthropic.com", <<V1, "messages">>, "")
    [] provider = "kimi" -> Url("https", "api.moonshot.cn", <<V1, "chat", "completions">>, "")
    [] provider = "zhipu" -> Url("https", "open.bigmodel.cn", <<"api", "paas", "v4", "chat", "completions">>, "")
    [] OTHER -> EmptyUrl

\* Version segments /v\d+/.
IsVersionSegment(seg) == seg \in {"v1", "v2", "v4", "V1"}

Last(path, k) == SubSeq(path, Len(path) - k + 1, Len(path))

\* /\/v\d+\/(chat\/completions|messages)$/i.test(path)
EndsWithApiRoute(path) ==
  \/ Len(path) >= 3 /\ IsVersionSegment(path[Len(path) - 2]) /\ Last(path, 2) = <<"chat", "completions">>
  \/ Len(path) >= 2 /\ IsVersionSegment(path[Len(path) - 1]) /\ Last(path, 1) = <<"messages">>

\* parsed.pathname.replace(/\/+$/, ''): a path written with trailing slashes
\* ends in empty segments, which are dropped.
RECURSIVE StripSlashes(_)
StripSlashes(path) ==
  IF path # <<>> /\ path[Len(path)] = "" THEN StripSlashes(SubSeq(path, 1, Len(path) - 1))
  ELSE path

\* resolveApiEndpoint without the '/v1' default of line 596.
EndpointFor_NoDefaultVersion(provider, parsed) ==
  LET path == StripSlashes(parsed.path)
      suffix == IF provider = "claude" THEN <<"messages">> ELSE <<"chat", "completions">>
  IN IF EndsWithApiRoute(path) THEN Url(parsed.scheme, hostname(parsed), path, "")
     ELSE Url(parsed.scheme, hostname(parsed), path \o suffix, "")

\* Lines 585-599: the endpoint for a parsed base URL (origin + resolved path).
EndpointFor(provider, parsed) ==
  LET path == StripSlashes(parsed.path)
      suffix == IF provider = "claude" THEN <<"messages">> ELSE <<"chat", "completions">>
  IN IF EndsWithApiRoute(path) THEN Url(parsed.scheme, hostname(parsed), path, "")
     ELSE IF path # <<>> /\ IsVersionSegment(path[Len(path)])
          THEN Url(parsed.scheme, hostname(parsed), path \o suffix, "")
     ELSE IF path = <<>> THEN Url(parsed.scheme, hostname(parsed), <<V1>> \o suffix, "")
     ELSE Url(parsed.scheme, hostname(parsed), path \o suffix, "")

\* buildPrompt: which text feeds the user content, which quoted content is
\* appended, whether the card is appended, and which system template is used.
buildPrompt_TextFirst(post, article, quoted, isArticle, hasQuotedFull) ==
  [source |-> IF post.text # "" THEN "text"
              ELSE IF isArticle THEN "article"
              ELSE IF post.cardText # "" THEN "cardText"
              ELSE IF post.fallbackText # "" THEN "fallbackText"
              ELSE "none",
   quoted |-> IF hasQuotedFull THEN "full"
              ELSE IF post.quotedText # "" THEN "inline"
              ELSE "none",
   card |-> ~isArticle /\ post.text # "" /\ post.cardText # "",
   template |-> IF isArticle THEN "article"
                ELSE IF hasQuotedFull THEN "quoted"
                ELSE "plain"]

buildPrompt(post, article, quoted, isArticle, hasQuotedFull) ==
  [source |-> IF isArticle THEN "article"
              ELSE IF post.text # "" THEN "text"
              ELSE IF post.cardText # "" THEN "cardText"
              ELSE IF post.fallbackText # "" THEN "fallbackText"
              ELSE "none",
   quoted |-> IF hasQuotedFull THEN "full"
              ELSE IF post.quotedText # "" THEN "inline"
              ELSE "none",
   card |-> ~isArticle /\ post.text # "" /\ post.cardText # "",
   template |-> IF isArticle THEN "article"
                ELSE IF hasQuotedFull THEN "quoted"
                ELSE "plain"]

NoPrompt == [source |-> "none", quoted |-> "none", card |-> FALSE, template |-> "none"]

\* `!!(content && content.body)`
HasBody_Always(content) == TRUE

HasBody(content) == Truthy(content) /\ content.body # ""

Rejected(err) == [kind |-> "error", error |-> err]

Resolved(tldr, ac, qc, isArticle, mode) ==
  [kind |-> "result", tldr |-> tldr, articleContent |-> ac, quotedFullContent |-> qc,
   isArticle |-> isArticle, mode |-> mode]

Pending == [kind |-> "pending"]

\* Whether handleTLDRRequest deep-fetches the quoted post (lines 511-513).
QuotedFetchWanted_Always(url, post) == url # EmptyUrl

QuotedFetchWanted(url, post) == url # EmptyUrl /\ Len(post.quotedText) < QuoteThreshold

\* Whether the AI-disabled short-circuit of line 521 is taken.
ShortCircuit_Never(s) == FALSE

ShortCircuit(s) == ~s.aiEnabled

\* Whether the provider needs the stored key (line 529).
NeedsKey(s) == s.provider # "local-claude"

fetchIdle == UNCHANGED fetchVars

\* The settled call's locals go out of scope when its caller resumes; the
\* browser's tabs stay as they are.
FetchFrameDropped ==
  /\ f_pc' = "idle"
  /\ f_url' = EmptyUrl
  /\ f_caller' = ""
  /\ f_ret' = NULL
  /\ f_rejected' = FALSE
  /\ tabId' = 0
  /\ results' = NULL
  /\ attempts' = 0
  /\ href' = EmptyUrl
  /\ pollHref' = EmptyUrl
  /\ removeCalls' = 0
  /\ UNCHANGED <<tabSeq, openTabs, createdTabs>>

\* Custom base URLs the settings can hold: none, a proxy, an unparseable text.
BaseUrls == {EmptyUrl, Url("https", "proxy.example.com", <<V1>>, ""), Url("", "", <<"proxy">>, "")}

\* The values chrome.storage.sync can hold for the keys read at line 492.
SettingsSpace == [provider : Providers, aiEnabled : BOOLEAN, baseUrl : BaseUrls,
                  mdMode : {"tldr", "original"}]

\* Line 492: the settings snapshot is read from chrome.storage.sync, which
\* holds one of `space`.
ReadSettingsOf(space) ==
  /\ h_pc = "start"
  /\ \E s \in space : settings' = s
  /\ h_pc' = "article"
  /\ UNCHANGED <<tweetData, articleUrl, quotedTweetUrl, senderTabId, articleContent,
                 quotedFullContent, apiKey, prompt, maxTokens, endpoint, outcome, steps,
                 encryptedApiKey, httpRequests, nativeCalls>>
  /\ UNCHANGED <<fetchVars, saveVars, histVars, envVars>>

ReadSettings == ReadSettingsOf(SettingsSpace)

\* Lines 502-505.
ArticleStep ==
  /\ h_pc = "article"
  /\ IF articleUrl # EmptyUrl
     THEN /\ FetchCall(articleUrl, "article")
          /\ steps' = Append(steps, "article")
          /\ h_pc' = "awaitArticle"
     ELSE /\ fetchIdle
          /\ UNCHANGED steps
          /\ h_pc' = "quoted"
  /\ UNCHANGED <<tweetData, articleUrl, quotedTweetUrl, senderTabId, settings, articleContent,
                 quotedFullContent, apiKey, prompt, maxTokens, endpoint, outcome,
                 encryptedApiKey, httpRequests, nativeCalls>>
  /\ UNCHANGED <<saveVars, histVars, envVars>>

\* The awaited fetchPageContent(articleUrl) settles.
ArticleReturns ==
  /\ h_pc = "awaitArticle"
  /\ f_pc = "returned"
  /\ f_caller = "article"
  /\ IF f_rejected
     THEN outcome' = Rejected("fetch") /\ h_pc' = "rejected" /\ UNCHANGED articleContent
     ELSE articleContent' = f_ret /\ h_pc' = "quoted" /\ UNCHANGED outcome
  /\ FetchFrameDropped
  /\ UNCHANGED <<tweetData, articleUrl, quotedTweetUrl, senderTabId, settings,
                 quotedFullContent, apiKey, prompt, maxTokens, endpoint, steps,
                 encryptedApiKey, httpRequests, nativeCalls>>
  /\ UNCHANGED <<saveVars, histVars, envVars>>

\* Lines 510-516.
QuotedStep ==
  /\ h_pc = "quoted"
  /\ IF QuotedFetchWanted(quotedTweetUrl, tweetData)
     THEN /\ FetchCall(quotedTweetUrl, "quoted")
          /\ steps' = Append(steps, "quoted")
          /\ h_pc' = "awaitQuoted"
     ELSE /\ fetchIdle
          /\ UNCHANGED steps
          /\ h_pc' = "gate"
  /\ UNCHANGED <<tweetData, articleUrl, quotedTweetUrl, senderTabId, settings, articleContent,
                 quotedFullContent, apiKey, prompt, maxTokens, endpoint, outcome,
                 encryptedApiKey, httpRequests, nativeCalls>>
  /\ UNCHANGED <<saveVars, histVars, envVars>>

\* The awaited fetchPageContent(quotedTweetUrl) settles.
QuotedReturns ==
  /\ h_pc = "awaitQuoted"
  /\ f_pc = "returned"
  /\ f_caller = "quoted"
  /\ IF f_rejected
     THEN outcome' = Rejected("fetch") /\ h_pc' = "rejected" /\ UNCHANGED quotedFullContent
     ELSE quotedFullContent' = f_ret /\ h_pc' = "gate" /\ UNCHANGED outcome
  /\ FetchFrameDropped
  /\ UNCHANGED <<tweetData, articleUrl, quotedTweetUrl, senderTabId, settings, articleContent,
                 apiKey, prompt, maxTokens, endpoint, steps, encryptedApiKey, httpRequests,
                 nativeCalls>>
  /\ UNCHANGED <<saveVars, histVars, envVars>>

\* Lines 518-531: the AI-disabled short-circuit, else the stored key is
\* requested from chrome.storage.local (not for local-claude).
AiGate ==
  /\ h_pc = "gate"
  /\ IF ShortCircuit(settings)
     THEN /\ outcome' = Resolved("", articleContent, quotedFullContent, HasBody(articleContent), "raw")
          /\ steps' = Append(steps, "shortcircuit")
          /\ h_pc' = "resolved"
     ELSE IF NeedsKey(settings)
     THEN /\ steps' = Append(steps, "credential")
          /\ h_pc' = "key"
          /\ UNCHANGED outcome
     ELSE /\ h_pc' = "prompt"
          /\ UNCHANGED <<outcome, steps>>
  /\ UNCHANGED <<tweetData, articleUrl, quotedTweetUrl, senderTabId, settings, articleContent,
                 quotedFullContent, apiKey, prompt, maxTokens, endpoint, encryptedApiKey,
                 httpRequests, nativeCalls>>
  /\ UNCHANGED <<fetchVars, saveVars, histVars, envVars>>

\* What chrome.storage.local can hold under encryptedApiKey: nothing, a blob
\* that does not decrypt, a blob of the empty string, a blob of a key.
StoredKeys == {"absent", "corrupt", "encrypted-empty", "encrypted-key"}

\* `if (!localData.encryptedApiKey)` (line 531).
KeyMissing(blob) == blob = "absent"

\* decryptApiKey (468-476): "throws" when AES-GCM rejects the blob, else the
\* plaintext.
decryptApiKey(blob) ==
  CASE blob = "corrupt" -> "throws"
    [] blob = "encrypted-empty" -> ""
    [] OTHER -> "sk-key"

\* `if (!apiKey)` (line 539).
EmptyKeyRejected_Not(key) == FALSE

EmptyKeyRejected(key) == key = ""

\* Lines 530-535: the stored blob (one of `blobs`) arrives; absent rejects,
\* else decryptApiKey is called.
ReadKeyOf(blobs) ==
  /\ h_pc = "key"
  /\ \E blob \in blobs :
       /\ encryptedApiKey' = blob
       /\ IF KeyMissing(blob)
          THEN outcome' = Rejected("noKey") /\ h_pc' = "rejected"
          ELSE h_pc' = "decrypt" /\ UNCHANGED outcome
  /\ UNCHANGED <<tweetData, articleUrl, quotedTweetUrl, senderTabId, settings, articleContent,
                 quotedFullContent, apiKey, prompt, maxTokens, endpoint, steps, httpRequests,
                 nativeCalls>>
  /\ UNCHANGED <<fetchVars, saveVars, histVars, envVars>>

ReadKey == ReadKeyOf(StoredKeys)

\* Lines 535-541: decryptApiKey settles.
DecryptKey ==
  /\ h_pc = "decrypt"
  /\ LET key == decryptApiKey(encryptedApiKey)
     IN IF key = "throws"
        THEN outcome' = Rejected("decryptFailed") /\ h_pc' = "rejected" /\ UNCHANGED apiKey
        ELSE IF EmptyKeyRejected(key)
        THEN outcome' = Rejected("noKey") /\ h_pc' = "rejected" /\ apiKey' = key
        ELSE apiKey' = key /\ h_pc' = "prompt" /\ UNCHANGED outcome
  /\ UNCHANGED <<tweetData, articleUrl, quotedTweetUrl, senderTabId, settings, articleContent,
                 quotedFullContent, prompt, maxTokens, endpoint, steps, encryptedApiKey,
                 httpRequests, nativeCalls>>
  /\ UNCHANGED <<fetchVars, saveVars, histVars, envVars>>

\* Lines 544-547 and resolveApiEndpoint up to its first await (573-583).
BuildPromptStep ==
  /\ h_pc = "prompt"
  /\ LET isArticle == HasBody(articleContent)
         hasQuotedFull == HasBody(quotedFullContent)
     IN /\ prompt' = buildPrompt(tweetData, articleContent, quotedFullContent, isArticle, hasQuotedFull)
        /\ maxTokens' = IF isArticle \/ hasQuotedFull THEN 2000 ELSE 1000
  /\ IF settings.baseUrl = EmptyUrl
     THEN /\ endpoint' = PROVIDER_DEFAULT_ENDPOINTS(settings.provider)
          /\ steps' = steps \o <<"prompt", "endpoint">>
          /\ h_pc' = "call"
          /\ UNCHANGED outcome
     ELSE IF ~UrlParses(settings.baseUrl)
     THEN /\ outcome' = Rejected("badBaseUrl")
          /\ steps' = steps \o <<"prompt", "endpoint">>
          /\ h_pc' = "rejected"
          /\ UNCHANGED endpoint
     ELSE /\ steps' = steps \o <<"prompt", "endpoint">>
          /\ h_pc' = "permission"
          /\ UNCHANGED <<outcome, endpoint>>
  /\ UNCHANGED <<tweetData, articleUrl, quotedTweetUrl, senderTabId, settings, articleContent,
                 quotedFullContent, apiKey, encryptedApiKey, httpRequests, nativeCalls>>
  /\ UNCHANGED <<fetchVars, saveVars, histVars, envVars>>

\* What ensureBaseUrlPermission (602-624) can find: the chrome.permissions
\* API is missing, contains() reports the origin granted or not granted, or
\* contains() sets chrome.runtime.lastError.
PermissionChecks == {"noApi", "granted", "denied", "lastError"}

\* Whether ensureBaseUrlPermission resolves.
PermissionPasses_Always(answer) == TRUE

PermissionPasses(answer) == answer \in {"noApi", "granted"}

\* ensureBaseUrlPermission settles (602-624), then lines 585-599.
PermissionAnswers ==
  /\ h_pc = "permission"
  /\ \E answer \in PermissionChecks :
       /\ permission' = answer
       /\ IF PermissionPasses(answer)
          THEN /\ endpoint' = EndpointFor(settings.provider, settings.baseUrl)
               /\ h_pc' = "call"
               /\ UNCHANGED outcome
          ELSE /\ outcome' = Rejected("permission")
               /\ h_pc' = "rejected"
               /\ UNCHANGED endpoint
  /\ UNCHANGED <<tweetData, articleUrl, quotedTweetUrl, senderTabId, settings, articleContent,
                 quotedFullContent, apiKey, prompt, maxTokens, steps, encryptedApiKey,
                 httpRequests, nativeCalls>>
  /\ UNCHANGED <<fetchVars, saveVars, histVars, reply, providerResult, storage, atStart, popup>>
  /\ UNCHANGED <<call, args, ret, uiVars>>

\* The provider switch of lines 550-568: the request is sent, or the provider
\* is not supported.
CallProvider ==
  /\ h_pc = "call"
  /\ CASE settings.provider \in {"openai", "claude", "kimi", "zhipu"} ->
            /\ httpRequests' = Append(httpRequests, endpoint)
            /\ steps' = Append(steps, "provider")
            /\ h_pc' = "awaitProvider"
            /\ UNCHANGED <<nativeCalls, outcome>>
       [] settings.provider = "local-claude" ->
            /\ nativeCalls' = nativeCalls + 1
            /\ steps' = Append(steps, "provider")
            /\ h_pc' = "awaitProvider"
            /\ UNCHANGED <<httpRequests, outcome>>
       [] OTHER ->
            /\ outcome' = Rejected("unsupported")
            /\ h_pc' = "rejected"
            /\ UNCHANGED <<httpRequests, nativeCalls, steps>>
  /\ UNCHANGED <<tweetData, articleUrl, quotedTweetUrl, senderTabId, settings, articleContent,
                 quotedFullContent, apiKey, prompt, maxTokens, endpoint, encryptedApiKey>>
  /\ UNCHANGED <<fetchVars, saveVars, histVars, envVars>>

\* ------------------------------------------------------------------------
\* LLM API calls: callOpenAICompatible (920-943), callClaude (947-972),
\* callLocalClaude (974-992)
\* ------------------------------------------------------------------------

\* JS undefined where the code reads an object or an array.
UNDEFINED == [kind |-> "undefined"]

\* JS undefined where the code reads a text; no text of the model is spelled
\* this way.
undefined == "<undefined>"

\* The JSON object {}.
EmptyObject == [kind |-> "object"]

\* A JSON array.
Array(items) == [items |-> items]

\* !value, for an object, an array, null or undefined.
Falsy(value) == value = UNDEFINED \/ value = NULL

\* !text, for a text or undefined.
FalsyText(text) == text = undefined \/ text = ""

\* object.name where the member is an object or an array.
Member(object, name) == IF name \in DOMAIN object THEN object[name] ELSE UNDEFINED

\* object.name where the member is a text.
TextMember(object, name) == IF name \in DOMAIN object THEN object[name] ELSE undefined

\* array[0]
First(array) == IF Len(array.items) > 0 THEN array.items[1] ELSE UNDEFINED

\* HTTP statuses the provider answers with.
Statuses == {200, 401, 500}

\* res.ok
ok(res) == res.status >= 200 /\ res.status <= 299

\* fetch() itself rejects.
NetworkFailure == [kind |-> "networkError"]

\* Bodies of the OpenAI dialect: the text at choices[0].message.content, and
\* the same response with the path cut at each level.
OpenAIBodies ==
  {[choices |-> Array(<<[message |-> [content |-> "summary text"]]>>)],
   [choices |-> Array(<<[message |-> [role |-> "assistant"]]>>)],
   [choices |-> Array(<<[index |-> "0"]>>)],
   [choices |-> Array(<<>>)],
   [id |-> "r1"]}

\* Bodies of the Anthropic dialect: the text at content[0].text, and the same
\* response with the path cut at each level.
ClaudeBodies ==
  {[content |-> Array(<<[type |-> "text", text |-> "summary text"]>>)],
   [content |-> Array(<<[type |-> "tool_use"]>>)],
   [content |-> Array(<<>>)],
   [id |-> "r1"]}

\* Bodies of a failed request.
ErrorBodies ==
  {[error |-> [message |-> "quota exceeded"]],
   [error |-> [type |-> "overloaded"]],
   [id |-> "r1"],
   NULL}

\* What fetch() can deliver; json = FALSE is a body res.json() cannot parse.
HttpReplies ==
  {NetworkFailure}
  \cup {[status |-> 200, json |-> TRUE, body |-> b] : b \in OpenAIBodies \cup ClaudeBodies \cup {NULL}}
  \cup {[status |-> st, json |-> TRUE, body |-> b] : st \in Statuses \ {200}, b \in ErrorBodies}
  \cup {[status |-> st, json |-> FALSE, body |-> NULL] : st \in Statuses}

\* What the native host can answer to call_claude.
NativeReplies ==
  {[success |-> TRUE, text |-> "summary text"], [success |-> FALSE, text |-> ""]}

\* How the promise of a provider call settles.
NoResult == [settled |-> "pending", value |-> ""]

Fulfilled(value) == [settled |-> "resolved", value |-> value]

Thrown(message) == [settled |-> "rejected", value |-> message]

\* providerLabel + ' API error: ' + res.status
ApiError(providerLabel, status) == providerLabel \o " API error: " \o ToString(status)

\* providerLabel + ' API returned unexpected response format'
UnexpectedFormat(providerLabel) == providerLabel \o " API returned unexpected response format"

\* The providerLabel argument of lines 552-561 and the literal of callClaude
\* (the label of zhipu is written in Chinese in the source).
ProviderLabel(provider) ==
  CASE provider = "openai" -> "OpenAI"
    [] provider = "kimi" -> "Kimi"
    [] provider = "zhipu" -> "Zhipu"
    [] OTHER -> "Claude"

\* The `if (!res.ok)` block (934-937, 964-967): res.json() with {} for a body
\* that does not parse, then (err.error && err.error.message) || the generic
\* message.
ErrorOf(res, providerLabel) ==
  LET err == IF res.json THEN res.body ELSE EmptyObject
  IN IF err = NULL
     THEN Thrown("TypeError")
     ELSE LET error == Member(err, "error")
              message == IF Falsy(error) THEN undefined ELSE TextMember(error, "message")
          IN Thrown(IF FalsyText(message) THEN ApiError(providerLabel, res.status) ELSE message)

\* callOpenAICompatible from the settled fetch on (934-942).
callOpenAICompatible(res, providerLabel) ==
  IF res = NetworkFailure THEN Thrown("network")
  ELSE IF ~ok(res) THEN ErrorOf(res, providerLabel)
  ELSE IF ~res.json THEN Thrown("SyntaxError")
  ELSE IF res.body = NULL THEN Thrown("TypeError")
  ELSE LET choices == Member(res.body, "choices")
       IN IF Falsy(choices) THEN Thrown(UnexpectedFormat(providerLabel))
          ELSE IF Falsy(First(choices)) THEN Thrown(UnexpectedFormat(providerLabel))
          ELSE IF Falsy(Member(First(choices), "message"))
          THEN Thrown(UnexpectedFormat(providerLabel))
          ELSE Fulfilled(TextMember(Member(First(choices), "message"), "content"))

\* callClaude from the settled fetch on (964-971).
callClaude(res) ==
  IF res = NetworkFailure THEN Thrown("network")
  ELSE IF ~ok(res) THEN ErrorOf(res, "Claude")
  ELSE IF ~res.json THEN Thrown("SyntaxError")
  ELSE IF res.body = NULL THEN Thrown("TypeError")
  ELSE LET content == Member(res.body, "content")
       IN IF Falsy(content) THEN Thrown(UnexpectedFormat("Claude"))
          ELSE IF Falsy(First(content)) THEN Thrown(UnexpectedFormat("Claude"))
          ELSE Fulfilled(TextMember(First(content), "text"))

\* callLocalClaude from the native host's answer on (980-989).
callLocalClaude(answer) ==
  IF answer.success THEN Fulfilled(answer.text) ELSE Thrown("local")

\* The call the switch of lines 550-568 awaits, applied to what came back.
SettledCall(provider, res) ==
  CASE provider = "local-claude" -> callLocalClaude(res)
    [] provider = "claude" -> callClaude(res)
    [] OTHER -> callOpenAICompatible(res, ProviderLabel(provider))

\* Where handleTLDRRequest is after a provider call rejected: no catch and no
\* loop surrounds the switch, the rejection leaves the function.
AfterFailedCall_Retry == "call"

AfterFailedCall == "rejected"

\* The provider call settles; on success line 570 returns the result.
ProviderAnswers ==
  /\ h_pc = "awaitProvider"
  /\ \E res \in IF settings.provider = "local-claude" THEN NativeReplies ELSE HttpReplies :
       LET result == SettledCall(settings.provider, res)
       IN /\ reply' = res
          /\ providerResult' = result
          /\ IF result.settled = "resolved"
             THEN /\ outcome' = Resolved(result.value, articleContent, quotedFullContent,
                                         HasBody(articleContent), settings.mdMode)
                  /\ h_pc' = "resolved"
             ELSE /\ outcome' = Rejected("provider")
                  /\ h_pc' = AfterFailedCall
  /\ UNCHANGED <<tweetData, articleUrl, quotedTweetUrl, senderTabId, settings, articleContent,
                 quotedFullContent, apiKey, prompt, maxTokens, endpoint, steps, encryptedApiKey,
                 httpRequests, nativeCalls>>
  /\ UNCHANGED <<fetchVars, saveVars, histVars, permission, storage, atStart, popup>>
  /\ UNCHANGED <<call, args, ret, uiVars>>

\* ------------------------------------------------------------------------
\* saveToHistory (part_002 74-104) and the popup's clearHistory (1334-1337)
\* ------------------------------------------------------------------------

MAX_HISTORY == 200

\* saveToHistory calls that can be in flight together.
Calls == {1, 2}

\* Entries saveToHistory builds in one run of the model.
MaxEntries == 3

\* Lines 80-83: the first non-empty of text, cardText, quotedText,
\* fallbackText, cut to its first 120 characters, "..." added when cut.
tweetPreview(post) ==
  LET previewSource == IF post.text # "" THEN post.text
                       ELSE IF post.cardText # "" THEN post.cardText
                       ELSE IF post.quotedText # "" THEN post.quotedText
                       ELSE post.fallbackText
  IN [of |-> previewSource,
      chars |-> IF Len(previewSource) > 120 THEN 120 ELSE Len(previewSource),
      ellipsis |-> Len(previewSource) > 120]

\* Lines 85-93: the entry built at clock value n.
Entry(n, arg) ==
  [id |-> n, timestamp |-> n, tweetPreview |-> tweetPreview(arg.post), tldr |-> arg.tldr,
   isArticle |-> arg.isArticle]

HistoryArg(post, tldr, isArticle) == [post |-> post, tldr |-> tldr, isArticle |-> isArticle]

NoArg == HistoryArg(Post("", "", "", ""), "", FALSE)

\* history.unshift(entry) (line 95).
Unshift_Push(list, entry) == Append(list, entry)

Unshift(list, entry) == <<entry>> \o list

\* Lines 96-98.
Truncate_None(list) == list

Truncate(list) == IF Len(list) > MAX_HISTORY THEN SubSeq(list, 1, MAX_HISTORY) ELSE list

\* saveToHistory(tweetData, tldr, isArticle) is called: it requests the
\* stored list (line 76).
SaveToHistoryCall(p, arg) ==
  /\ hist_pc' = [hist_pc EXCEPT ![p] = "get"]
  /\ hist_arg' = [hist_arg EXCEPT ![p] = arg]
  /\ hist_list' = [hist_list EXCEPT ![p] = <<>>]
  /\ UNCHANGED <<history, clock, created>>

\* Lines 76-100: the stored list arrives; the entry is built, put in front,
\* the list is cut to MAX_HISTORY and the write is requested.
HistoryGetResolves(p) ==
  /\ hist_pc[p] = "get"
  /\ clock < MaxEntries
  /\ LET entry == Entry(clock + 1, hist_arg[p])
     IN /\ hist_list' = [hist_list EXCEPT ![p] = Truncate(Unshift(history, entry))]
        /\ created' = created \cup {entry}
  /\ clock' = clock + 1
  /\ hist_pc' = [hist_pc EXCEPT ![p] = "set"]
  /\ UNCHANGED <<history, hist_arg>>
  /\ UNCHANGED <<fetchVars, reqVars, saveVars, envVars>>

\* chrome.storage.local.get rejects: the catch of lines 101-103 ends the call.
HistoryGetRejects(p) ==
  /\ hist_pc[p] = "get"
  /\ hist_pc' = [hist_pc EXCEPT ![p] = "caught"]
  /\ UNCHANGED <<history, hist_arg, hist_list, clock, created>>
  /\ UNCHANGED <<fetchVars, reqVars, saveVars, envVars>>

\* chrome.storage.local.set({ history }) of line 100 is applied.
HistorySetResolves(p) ==
  /\ hist_pc[p] = "set"
  /\ history' = hist_list[p]
  /\ hist_pc' = [hist_pc EXCEPT ![p] = "done"]
  /\ UNCHANGED <<hist_arg, hist_list, clock, created>>
  /\ UNCHANGED <<fetchVars, reqVars, saveVars, envVars>>

\* chrome.storage.local.set rejects; the catch ends the call.
HistorySetRejects(p) ==
  /\ hist_pc[p] = "set"
  /\ hist_pc' = [hist_pc EXCEPT ![p] = "caught"]
  /\ UNCHANGED <<history, hist_arg, hist_list, clock, created>>
  /\ UNCHANGED <<fetchVars, reqVars, saveVars, envVars>>

\* popup clearHistory: chrome.storage.local.set({ history: [] }) is applied.
ClearHistory ==
  /\ history' = <<>>
  /\ UNCHANGED <<hist_pc, hist_arg, hist_list, clock, created>>
  /\ UNCHANGED <<fetchVars, reqVars, saveVars, envVars>>

HistoryStep ==
  \E p \in Calls :
    \/ HistoryGetResolves(p)
    \/ HistoryGetRejects(p)
    \/ HistorySetResolves(p)
    \/ HistorySetRejects(p)

\* ------------------------------------------------------------------------
\* GENERATE_TLDR listener (part_002 22-40), saveMarkdownFile (108-134),
\* writeViaNativeHost (140-163), writeViaContentScript (169-184),
\* writeViaDownloads (192-245)
\* ------------------------------------------------------------------------

\* lastSave as left by an earlier run.
StaleSave == [kind |-> "stale"]

SaveOk(method) == [kind |-> "record", success |-> TRUE, method |-> method]

SaveFailed(method) == [kind |-> "record", success |-> FALSE, method |-> method]

Tier(name, reported) == [tier |-> name, reported |-> reported]

\* `if (written) return;` (line 115) and `if (csWritten) return;` (line 122).
StopsAfterSuccess_Not(written) == FALSE

StopsAfterSuccess(written) == written

\* `if (senderTabId)` (line 120).
PageTierApplies(tab) == tab # 0

\* The handler of the rejected request: sendResponse({success: false, ...}).
ListenerCatch ==
  /\ h_pc = "rejected"
  /\ l_pc = "idle"
  /\ response' = [success |-> FALSE, error |-> outcome.error]
  /\ l_pc' = "done"
  /\ UNCHANGED <<s_pc, lastSave, tierLog, downloadId>>
  /\ UNCHANGED <<delta, timers>>
  /\ UNCHANGED <<fetchVars, reqVars, histVars, envVars>>

\* Lines 25-30: saveToHistory is started, autoDownloadMd is requested.
ListenerThen ==
  /\ h_pc = "resolved"
  /\ l_pc = "idle"
  /\ l_pc' = "prefs"
  /\ SaveToHistoryCall(1, HistoryArg(tweetData, outcome.tldr, outcome.isArticle))
  /\ UNCHANGED <<response, s_pc, lastSave, tierLog, downloadId>>
  /\ UNCHANGED <<delta, timers>>
  /\ UNCHANGED <<fetchVars, reqVars, envVars>>

\* Lines 30-36: the autoDownloadMd read settles. When it resolves,
\* saveMarkdownFile is started if the flag is set (its synchronous head
\* builds the document and calls writeViaNativeHost, which requests
\* mdFolderPath) and the success response is sent; when it rejects, the
\* rejection of the then-handler reaches the .catch of line 38.
PrefsReadOf(values) ==
  /\ l_pc = "prefs"
  /\ \E prefs \in values :
       IF prefs = "rejects"
       THEN /\ response' = [success |-> FALSE, error |-> "storage"]
            /\ UNCHANGED s_pc
       ELSE /\ s_pc' = (IF prefs = "on" THEN "nativeGet" ELSE "off")
            /\ response' = [success |-> TRUE, tldr |-> outcome.tldr, mode |-> outcome.mode]
  /\ l_pc' = "done"
  /\ UNCHANGED <<lastSave, tierLog, downloadId>>
  /\ UNCHANGED <<delta, timers>>
  /\ UNCHANGED <<fetchVars, reqVars, histVars, envVars>>

PrefsRead == PrefsReadOf({"on", "off", "rejects"})

\* What follows a tier that returned `written`: return, the page tier
\* (chrome.tabs.sendMessage) or the download tier (chrome.downloads.download).
AfterNative(written) ==
  IF StopsAfterSuccess(written) THEN "done"
  ELSE IF PageTierApplies(senderTabId) THEN "pageSend"
  ELSE "dlStart"

AfterPage(csWritten) == IF StopsAfterSuccess(csWritten) THEN "done" ELSE "dlStart"

\* writeViaNativeHost lines 142-150: mdFolderPath arrives (or the read fails).
NativeFolderReadOf(folders) ==
  /\ s_pc = "nativeGet"
  /\ \E folder \in folders :
       IF folder = "/Users/me/notes"
       THEN s_pc' = "nativeSend" /\ UNCHANGED tierLog
       ELSE /\ tierLog' = Append(tierLog, Tier("native", IF folder = "" THEN "inapplicable" ELSE "failed"))
            /\ s_pc' = AfterNative(FALSE)
  /\ UNCHANGED <<l_pc, response, lastSave, downloadId>>
  /\ UNCHANGED <<delta, timers>>
  /\ UNCHANGED <<fetchVars, reqVars, histVars, envVars>>

NativeFolderRead == NativeFolderReadOf({"", "/Users/me/notes", "read-error"})

\* writeViaNativeHost lines 151-162: the helper answers or the call rejects.
NativeAnswers ==
  /\ s_pc = "nativeSend"
  /\ \E answer \in {"success", "error", "rejects"} :
       IF answer = "success"
       THEN /\ lastSave' = SaveOk("native")
            /\ tierLog' = Append(tierLog, Tier("native", "success"))
            /\ s_pc' = AfterNative(TRUE)
       ELSE /\ tierLog' = Append(tierLog, Tier("native", "failed"))
            /\ s_pc' = AfterNative(FALSE)
            /\ UNCHANGED lastSave
  /\ UNCHANGED <<l_pc, response, downloadId>>
  /\ UNCHANGED <<delta, timers>>
  /\ UNCHANGED <<fetchVars, reqVars, histVars, envVars>>

\* writeViaContentScript lines 171-183: chrome.tabs.sendMessage settles.
PageAnswers ==
  /\ s_pc = "pageSend"
  /\ \E delivered \in BOOLEAN :
       IF delivered
       THEN /\ lastSave' = SaveOk("content-script")
            /\ tierLog' = Append(tierLog, Tier("content-script", "success"))
            /\ s_pc' = AfterPage(TRUE)
       ELSE /\ tierLog' = Append(tierLog, Tier("content-script", "failed"))
            /\ s_pc' = AfterPage(FALSE)
            /\ UNCHANGED lastSave
  /\ UNCHANGED <<l_pc, response, downloadId>>
  /\ UNCHANGED <<delta, timers>>
  /\ UNCHANGED <<fetchVars, reqVars, histVars, envVars>>

\* Download ids the browser hands out (this run's and other downloads').
DownloadIds == {7, 8}

\* The catch block of saveMarkdownFile (lines 127-132).
CatchRecord == SaveFailed("error")

\* writeViaDownloads lines 208-243: chrome.downloads.download settles; a
\* rejection reaches saveMarkdownFile's catch block (lines 127-132).
DownloadStarts ==
  /\ s_pc = "dlStart"
  /\ \E started \in BOOLEAN :
       IF started
       THEN /\ \E id \in DownloadIds : downloadId' = id
            /\ s_pc' = "dlWait"
            /\ timers' = timers \cup {"download"}
            /\ UNCHANGED <<lastSave, tierLog>>
       ELSE /\ lastSave' = CatchRecord
            /\ tierLog' = Append(tierLog, Tier("downloads", "failed"))
            /\ s_pc' = "done"
            /\ UNCHANGED <<downloadId, timers>>
  /\ UNCHANGED <<l_pc, response, delta>>
  /\ UNCHANGED <<fetchVars, reqVars, histVars, envVars>>

\* onChanged without the test of delta.id.
OnChangedEffect_AnyId(id, state, own) ==
  IF state = "complete" THEN "success"
  ELSE IF state = "interrupted" THEN "failure"
  ELSE "ignore"

\* What onChanged (lines 223-240) does with a delta: "ignore", or the record
\* it writes before resolving.
OnChangedEffect(id, state, own) ==
  IF id # own THEN "ignore"
  ELSE IF state = "complete" THEN "success"
  ELSE IF state = "interrupted" THEN "failure"
  ELSE "ignore"

\* chrome.downloads.onChanged fires.
DownloadChanged ==
  /\ s_pc = "dlWait"
  /\ \E id \in DownloadIds, state \in {"in_progress", "complete", "interrupted"} :
       /\ delta' = [id |-> id, state |-> state]
       /\ LET effect == OnChangedEffect(id, state, downloadId)
          IN CASE effect = "success" ->
                    /\ lastSave' = SaveOk("downloads")
                    /\ tierLog' = Append(tierLog, Tier("downloads", "success"))
                    /\ s_pc' = "done"
               [] effect = "failure" ->
                    /\ lastSave' = SaveFailed("downloads")
                    /\ tierLog' = Append(tierLog, Tier("downloads", "failed"))
                    /\ s_pc' = "done"
               [] OTHER ->
                    /\ tierLog' = tierLog
                    /\ UNCHANGED <<lastSave, s_pc>>
  /\ UNCHANGED <<l_pc, response, downloadId, timers>>
  /\ UNCHANGED <<fetchVars, reqVars, histVars, envVars>>

\* The 30 s safety timer of line 243 fires: it resolves the wait if the
\* promise is still pending and has no effect after onChanged resolved it.
DownloadTimeout ==
  /\ "download" \in timers
  /\ timers' = timers \ {"download"}
  /\ IF s_pc = "dlWait"
     THEN /\ tierLog' = Append(tierLog, Tier("downloads", "timeout"))
          /\ s_pc' = "done"
     ELSE UNCHANGED <<tierLog, s_pc>>
  /\ UNCHANGED <<l_pc, response, lastSave, downloadId, delta>>
  /\ UNCHANGED <<fetchVars, reqVars, histVars, envVars>>

SaveStep ==
  \/ NativeFolderRead
  \/ NativeAnswers
  \/ PageAnswers
  \/ DownloadStarts
  \/ DownloadChanged
  \/ DownloadTimeout

\* ------------------------------------------------------------------------
\* Markdown document: stripArticleMetadataPrefix (part_002 249-280),
\* escapeMarkdownLinkUrl / escapeMarkdownLinkText (285-293),
\* buildMarkdownContent (296-397)
\* ------------------------------------------------------------------------

\* A text is the sequence of its lines (what split('\n') gives and join('\n')
\* takes); a text of the model without a line break is written as a string.
Split(text) == <<text>>

\* Lines of the model, without surrounding whitespace. The middle dot, which
\* the source writes as the character U+00B7, is spelled out.
MiddleDot == "<U+00B7>"

Handles == {"@alice"}

DateLines == {"11 Feb 2026", "2 feb"}

ButtonTexts == {"Follow", "follow", "Edited"}

EngagementNumbers == {"27", "1,234", "302K"}

Words == {"", "Hello world", "27 likes", "@alice says", "Following", "Title", "Alice", MiddleDot}
         \cup Handles \cup DateLines \cup ButtonTexts \cup EngagementNumbers

\* The same lines with whitespace in front or behind.
LeftPad(w) == "  " \o w

RightPad(w) == w \o " "

\* String.prototype.trim, and its two halves, on the lines of the model.
Trim(line) ==
  IF \E w \in Words : line \in {LeftPad(w), RightPad(w), LeftPad(RightPad(w))}
  THEN CHOOSE w \in Words : line \in {LeftPad(w), RightPad(w), LeftPad(RightPad(w))}
  ELSE line

TrimLeft(line) ==
  IF \E w \in Words : line = LeftPad(w) THEN CHOOSE w \in Words : line = LeftPad(w)
  ELSE IF \E w \in Words : line = LeftPad(RightPad(w))
  THEN RightPad(CHOOSE w \in Words : line = LeftPad(RightPad(w)))
  ELSE IF Trim(line) = "" THEN "" ELSE line

TrimRight(line) ==
  IF \E w \in Words : line = RightPad(w) THEN CHOOSE w \in Words : line = RightPad(w)
  ELSE IF \E w \in Words : line = LeftPad(RightPad(w))
  THEN LeftPad(CHOOSE w \in Words : line = LeftPad(RightPad(w)))
  ELSE IF Trim(line) = "" THEN "" ELSE line

\* trim() of a text: whitespace, line breaks included, goes from both ends.
RECURSIVE DropBlankHead(_)
DropBlankHead(lines) ==
  IF lines # <<>> /\ Trim(lines[1]) = "" THEN DropBlankHead(Tail(lines)) ELSE lines

RECURSIVE DropBlankEnd(_)
DropBlankEnd(lines) ==
  IF lines # <<>> /\ Trim(lines[Len(lines)]) = ""
  THEN DropBlankEnd(SubSeq(lines, 1, Len(lines) - 1))
  ELSE lines

TrimText(lines) ==
  LET kept == DropBlankEnd(DropBlankHead(lines))
  IN IF kept = <<>> THEN <<"">>
     ELSE IF Len(kept) = 1 THEN <<Trim(kept[1])>>
     ELSE <<TrimLeft(kept[1])>> \o SubSeq(kept, 2, Len(kept) - 1) \o <<TrimRight(kept[Len(kept)])>>

IsMetadataLine_NoNumbers(line, cleanTitle, cleanAuthor) ==
  \/ line = ""
  \/ cleanTitle # "" /\ line = cleanTitle
  \/ cleanAuthor # "" /\ line = cleanAuthor
  \/ line \in Handles
  \/ line = MiddleDot
  \/ line \in DateLines
  \/ line \in ButtonTexts

\* The tests of lines 258-274 on a trimmed line.
IsMetadataLine(line, cleanTitle, cleanAuthor) ==
  \/ line = ""
  \/ cleanTitle # "" /\ line = cleanTitle
  \/ cleanAuthor # "" /\ line = cleanAuthor
  \/ line \in Handles
  \/ line = MiddleDot
  \/ line \in DateLines
  \/ line \in ButtonTexts
  \/ line \in EngagementNumbers

\* Lines the loop of 256-277 looks at.
MaxScan == 25

\* The index i the loop ends with (0-based), started at i.
RECURSIVE ScanFrom(_, _, _, _, _)
ScanFrom(lines, i, scan, cleanTitle, cleanAuthor) ==
  IF i < scan /\ IsMetadataLine(Trim(lines[i + 1]), cleanTitle, cleanAuthor)
  THEN ScanFrom(lines, i + 1, scan, cleanTitle, cleanAuthor)
  ELSE i

\* stripArticleMetadataPrefix on the lines of the body.
StripLines(lines, title, author) ==
  LET cleanAuthor == Trim(author)
      cleanTitle == Trim(title)
      maxScan == IF Len(lines) < MaxScan THEN Len(lines) ELSE MaxScan
      i == ScanFrom(lines, 0, maxScan, cleanTitle, cleanAuthor)
  IN TrimText(SubSeq(lines, i + 1, Len(lines)))

stripArticleMetadataPrefix(body, title, author) == StripLines(Split(body), title, author)

\* A URL or link text as the sequence of its characters.
RECURSIVE Join(_)
Join(chars) == IF chars = <<>> THEN "" ELSE chars[1] \o Join(Tail(chars))

\* url.replace(/[()]/g, c => '%' + c.charCodeAt(0).toString(16).toUpperCase())
RECURSIVE escapeMarkdownLinkUrl(_)
escapeMarkdownLinkUrl(url) ==
  IF url = <<>> THEN <<>>
  ELSE (CASE url[1] = "(" -> <<"%", "2", "8">>
          [] url[1] = ")" -> <<"%", "2", "9">>
          [] OTHER -> <<url[1]>>) \o escapeMarkdownLinkUrl(Tail(url))

\* text.replace(/[[\]]/g, '\\$&')
RECURSIVE escapeMarkdownLinkText(_)
escapeMarkdownLinkText(text) ==
  IF text = <<>> THEN <<>>
  ELSE (IF text[1] \in {"[", "]"} THEN <<"\\", text[1]>> ELSE <<text[1]>>)
       \o escapeMarkdownLinkText(Tail(text))

\* `tweetData.name || fallback` for a text member.
TextOr(post, name, fallback) ==
  IF FalsyText(TextMember(post, name)) THEN fallback ELSE post[name]

\* The date line; the clock is read once (lines 299-304).
DateStr == "2026-02-11 14:30"

\* Lines 385-393.
RECURSIVE ReferencedLinks(_)
ReferencedLinks(urls) ==
  IF urls = <<>> THEN <<>>
  ELSE <<"- [" \o Join(escapeMarkdownLinkText(urls[1])) \o "]("
         \o Join(escapeMarkdownLinkUrl(urls[1])) \o ")">> \o ReferencedLinks(Tail(urls))

\* `if (mode !== 'raw')` (line 330).
HasSummarySection_Always(mode) == TRUE

HasSummarySection(mode) == mode # "raw"

\* `if (mode === 'original' || mode === 'raw')` (line 340).
HasOriginalSection(mode) == mode \in {"original", "raw"}

\* buildMarkdownContent: the lines of the document it returns.
buildMarkdownContent(post, tldr, article, quoted, isArticle, mode) ==
  LET author == TextOr(post, "author", "unknown")
      tweetUrl == TextOr(post, "tweetUrl", TextOr(post, "url", ""))
      title == IF isArticle /\ Truthy(article) /\ article.title # ""
               THEN article.title ELSE author
      metrics == Member(post, "metrics")
      head == <<"# " \o title, "", "> **Author**: " \o author, "> **Source**: " \o tweetUrl,
                "> **Date**: " \o DateStr>>
              \o (IF Falsy(metrics) THEN <<>>
                  ELSE <<"> **Replies**: " \o TextOr(metrics, "replies", "0")
                         \o " <U+00B7> **Retweets**: " \o TextOr(metrics, "retweets", "0")
                         \o " <U+00B7> **Likes**: " \o TextOr(metrics, "likes", "0")
                         \o " <U+00B7> **Views**: " \o TextOr(metrics, "views", "0")>>)
              \o <<"", "---", "">>
      summary == IF HasSummarySection(mode)
                 THEN <<"## TLDR", "", IF tldr = undefined THEN "" ELSE tldr, "", "---", "">>
                 ELSE <<>>
      main == IF isArticle /\ Truthy(article)
              THEN (IF article.title # "" THEN <<"### " \o article.title, "">>
                    ELSE <<>>)
                   \o stripArticleMetadataPrefix(article.body, article.title, author)
              ELSE IF post.text # "" THEN <<post.text>>
              ELSE IF post.cardText # "" THEN <<post.cardText>>
              ELSE IF post.fallbackText # ""
              THEN stripArticleMetadataPrefix(post.fallbackText, "", author)
              ELSE <<>>
      quotedBody == IF HasBody(quoted) THEN quoted.body
                    ELSE post.quotedText
      quotedPart == IF quotedBody # ""
                THEN <<"### Quoted Content (by " \o TextOr(post, "quotedAuthor", "unknown") \o ")",
                       "", quotedBody, "">>
                ELSE <<>>
      card == IF ~isArticle /\ post.text # "" /\ post.cardText # ""
              THEN <<"### Attached Card", "", post.cardText, "">>
              ELSE <<>>
      urls == IF "referencedUrls" \in DOMAIN post THEN post.referencedUrls ELSE <<>>
      links == IF urls # <<>> THEN <<"### Referenced Links", "">> \o ReferencedLinks(urls) \o <<"">>
               ELSE <<>>
      original == IF HasOriginalSection(mode)
                  THEN <<"## Original Content", "">> \o main \o <<"">> \o quotedPart \o card \o links
                  ELSE <<>>
  IN head \o summary \o original

\* ------------------------------------------------------------------------
\* File name: buildFileName (part_002 401-450). Texts are sequences of
\* characters here; a character is a one-character string, and a character
\* that cannot be written in a string is spelled out.
\* ------------------------------------------------------------------------

NUL == "<U+0000>"
DEL == "<U+007F>"
NBSP == "<U+00A0>"

\* The class [\x00-\x1f\x7f], as far as the alphabet of the model goes.
ControlChars == {NUL, "\t", "\n", "\r", DEL}

\* The class [\\/:*?"<>|].
UnsafeChars == {"\\", "/", ":", "*", "?", "\"", "<", ">", "|"}

\* What String.prototype.trim removes.
WhiteSpace == {" ", "\t", "\n", "\r", NBSP}

\* s.slice(from, to) with 0 <= from.
Slice(s, from, to) ==
  LET last == IF to > Len(s) THEN Len(s) ELSE to
  IN IF last <= from THEN <<>> ELSE SubSeq(s, from + 1, last)

\* s.lastIndexOf(c): the index counts from 0; -1 when c does not occur.
lastIndexOf(s, c) ==
  LET hits == {i \in DOMAIN s : s[i] = c}
  IN IF hits = {} THEN -1 ELSE (CHOOSE i \in hits : \A j \in hits : j <= i) - 1

\* .replace(/[\n\r]+/g, ' ')
RECURSIVE ReplaceLineBreaks(_)
ReplaceLineBreaks(s) ==
  IF s = <<>> THEN <<>>
  ELSE IF s[1] \in {"\n", "\r"}
  THEN IF Len(s) > 1 /\ s[2] \in {"\n", "\r"}
       THEN ReplaceLineBreaks(Tail(s))
       ELSE <<" ">> \o ReplaceLineBreaks(Tail(s))
  ELSE <<s[1]>> \o ReplaceLineBreaks(Tail(s))

\* .replace(/[\x00-\x1f\x7f]/g, '')
RemoveControlChars(s) == SelectSeq(s, LAMBDA c : c \notin ControlChars)

ReplaceUnsafeChars_Keep(s) == s

\* .replace(/[\\/:*?"<>|]/g, '_')
ReplaceUnsafeChars(s) == [i \in DOMAIN s |-> IF s[i] \in UnsafeChars THEN "_" ELSE s[i]]

\* .replace(/^\.+/, '')
RECURSIVE StripLeadingDots(_)
StripLeadingDots(s) ==
  IF s # <<>> /\ s[1] = "." THEN StripLeadingDots(Tail(s)) ELSE s

\* .trim()
RECURSIVE TrimStart(_)
TrimStart(s) == IF s # <<>> /\ s[1] \in WhiteSpace THEN TrimStart(Tail(s)) ELSE s

RECURSIVE TrimEnd(_)
TrimEnd(s) ==
  IF s # <<>> /\ s[Len(s)] \in WhiteSpace THEN TrimEnd(SubSeq(s, 1, Len(s) - 1)) ELSE s

TrimChars(s) == TrimEnd(TrimStart(s))

\* Lines 404-411: the first path segment of the post's URL, or 'unknown' when
\* the URL does not parse or has no first segment.
HandleOf(post) ==
  LET tweetUrl == IF post.tweetUrl # EmptyUrl THEN post.tweetUrl ELSE post.url
  IN IF UrlParses(tweetUrl) /\ tweetUrl.path # <<>> /\ tweetUrl.path[1] # <<>>
     THEN tweetUrl.path[1]
     ELSE <<"u", "n", "k", "n", "o", "w", "n">>

\* Lines 414-419.
TitleOf(post, article, isArticle) ==
  IF isArticle /\ article # NULL /\ article.title # <<>> THEN article.title
  ELSE IF post.text # <<>> THEN post.text
  ELSE IF post.cardText # <<>> THEN post.cardText
  ELSE post.fallbackText

\* Lines 425-429.
safeHandle(handle) ==
  Slice(TrimChars(StripLeadingDots(ReplaceUnsafeChars(RemoveControlChars(handle)))), 0, 30)

\* Lines 430-435, up to and including .trim().
SanitizedTitle(title) ==
  TrimChars(StripLeadingDots(ReplaceUnsafeChars(RemoveControlChars(ReplaceLineBreaks(title)))))

CutAtLastSpace_Anywhere(title, cut) ==
  LET lastSpace == lastIndexOf(cut, " ")
  IN IF Len(title) > 50 /\ lastSpace > 0 THEN Slice(cut, 0, lastSpace) ELSE cut

\* Lines 437-440.
CutAtLastSpace(title, cut) ==
  LET lastSpace == lastIndexOf(cut, " ")
  IN IF Len(title) > 50 /\ lastSpace > 20 THEN Slice(cut, 0, lastSpace) ELSE cut

\* Lines 430-441.
safeTitle(title) ==
  LET cut == CutAtLastSpace(title, Slice(SanitizedTitle(title), 0, 50))
  IN IF cut = <<>> THEN <<"u", "n", "t", "i", "t", "l", "e", "d">> ELSE cut

Digits == <<"0", "1", "2", "3", "4", "5", "6", "7", "8", "9">>

\* String(n) for a natural number.
RECURSIVE DecimalOf(_)
DecimalOf(n) ==
  IF n < 10 THEN <<Digits[n + 1]>> ELSE DecimalOf(n \div 10) \o <<Digits[(n % 10) + 1]>>

\* String(n).padStart(2, '0')
PadStart2(n) == IF n < 10 THEN <<"0">> \o DecimalOf(n) ELSE DecimalOf(n)

\* Lines 443-449: the local time of `now`; month counts from 0.
timeStamp(now) ==
  DecimalOf(now.year) \o PadStart2(now.month + 1) \o PadStart2(now.date)
    \o <<"-">> \o PadStart2(now.hours) \o PadStart2(now.minutes) \o PadStart2(now.seconds)

buildFileName(post, article, isArticle, now) ==
  safeHandle(HandleOf(post)) \o <<"-">> \o safeTitle(TitleOf(post, article, isArticle))
    \o <<"-">> \o timeStamp(now) \o <<".", "m", "d">>

\* ------------------------------------------------------------------------
\* normalizeBaseUrl (popup.js 357-372, part_002 1176-1192). A text is the
\* sequence of its tokens: a scheme or host or path word, ':', '/', ' '.
\* ------------------------------------------------------------------------

\* ASCII lower case of a word.
LowerCase(word) ==
  CASE word = "HTTPS" -> "https"
    [] word = "Example.COM" -> "example.com"
    [] OTHER -> word

\* /^https?:\/\//i.test(value)
HasHttpPrefix(value) ==
  /\ Len(value) >= 4
  /\ LowerCase(value[1]) \in {"http", "https"}
  /\ value[2] = ":" /\ value[3] = "/" /\ value[4] = "/"

\* The URL parser drops spaces at the two ends of its input.
RECURSIVE StripSpacesStart(_)
StripSpacesStart(s) == IF s # <<>> /\ s[1] = " " THEN StripSpacesStart(Tail(s)) ELSE s

RECURSIVE StripSpacesEnd(_)
StripSpacesEnd(s) ==
  IF s # <<>> /\ s[Len(s)] = " " THEN StripSpacesEnd(SubSeq(s, 1, Len(s) - 1)) ELSE s

\* For http and https the parser skips every slash after 'scheme:'.
RECURSIVE SkipSlashes(_)
SkipSlashes(s) == IF s # <<>> /\ s[1] = "/" THEN SkipSlashes(Tail(s)) ELSE s

\* The tokens before the first '/'.
RECURSIVE UpToSlash(_)
UpToSlash(s) == IF s = <<>> \/ s[1] = "/" THEN <<>> ELSE <<s[1]>> \o UpToSlash(Tail(s))

IsWord(token) == token \notin {":", "/", " "}

Ports == {"8080"}

NotParsed == [ok |-> FALSE, protocol |-> "", host |-> "", port |-> "", pathname |-> <<>>]

\* new URL(input) for an input that starts with 'http:' or 'https:': the host
\* is lower-cased, a ':' may be followed by a port or by nothing, a space in
\* the host makes the parser throw and a space in the path is percent-encoded.
ParseHttpUrl(input) ==
  LET text == StripSpacesEnd(StripSpacesStart(input))
      rest == SkipSlashes(SubSeq(text, 3, Len(text)))
      authority == UpToSlash(rest)
      path == SubSeq(rest, Len(authority) + 1, Len(rest))
      hostOk == authority # <<>> /\ IsWord(authority[1])
      portOk == \/ Len(authority) = 1
                \/ Len(authority) = 2 /\ authority[2] = ":"
                \/ Len(authority) = 3 /\ authority[2] = ":" /\ authority[3] \in Ports
  IN IF hostOk /\ portOk
     THEN [ok |-> TRUE,
           protocol |-> LowerCase(text[1]),
           host |-> LowerCase(authority[1]),
           port |-> IF Len(authority) = 3 THEN authority[3] ELSE "",
           pathname |-> IF path = <<>> THEN <<"/">>
                        ELSE [i \in DOMAIN path |-> IF path[i] = " " THEN "%20" ELSE path[i]]]
     ELSE NotParsed

\* url.origin
OriginOfParsed(url) ==
  <<url.protocol, ":", "/", "/", url.host>> \o (IF url.port = "" THEN <<>> ELSE <<":", url.port>>)

\* pathname.replace(/\/+$/, '')
RECURSIVE StripTrailingSlashes(_)
StripTrailingSlashes(path) ==
  IF path # <<>> /\ path[Len(path)] = "/"
  THEN StripTrailingSlashes(SubSeq(path, 1, Len(path) - 1))
  ELSE path

\* Line 360: the value gets 'https://' in front.
AddsHttps(value) == ~HasHttpPrefix(value)

normalizeBaseUrl(value) ==
  LET normalizedInput == IF AddsHttps(value) THEN <<"https", ":", "/", "/">> \o value ELSE value
      url == ParseHttpUrl(normalizedInput)
  IN IF ~url.ok THEN <<>>
     ELSE IF url.protocol # "https" /\ url.protocol # "http" THEN <<>>
     ELSE OriginOfParsed(url) \o StripTrailingSlashes(url.pathname)

\* ------------------------------------------------------------------------
\* isNewerVersion (popup.js 539-548). A version text is the sequence of its
\* dot-separated segments, as split('.') gives them.
\* ------------------------------------------------------------------------

NaN == [nan |-> TRUE, value |-> 0]

\* Number(segment): the number a decimal text stands for, NaN for other text.
Number(segment) ==
  CASE segment = "2" -> [nan |-> FALSE, value |-> 2]
    [] segment = "10" -> [nan |-> FALSE, value |-> 10]
    [] OTHER -> NaN

\* (list[i] || 0), i counted from 0: undefined, NaN and 0 give 0.
SegmentOrZero(list, i) ==
  IF i + 1 > Len(list) \/ list[i + 1].nan THEN 0 ELSE list[i + 1].value

\* The loop of lines 543-546, entered at index i.
RECURSIVE CompareFrom(_, _, _)
CompareFrom(r, l, i) ==
  IF i < 3
  THEN IF SegmentOrZero(r, i) > SegmentOrZero(l, i) THEN TRUE
       ELSE IF SegmentOrZero(r, i) < SegmentOrZero(l, i) THEN FALSE
       ELSE CompareFrom(r, l, i + 1)
  ELSE FALSE

isNewerVersion_FirstSegment(remote, local) ==
  LET r == [i \in DOMAIN remote |-> Number(remote[i])]
      l == [i \in DOMAIN local |-> Number(local[i])]
  IN SegmentOrZero(r, 0) > SegmentOrZero(l, 0)

isNewerVersion(remote, local) ==
  LET r == [i \in DOMAIN remote |-> Number(remote[i])]
      l == [i \in DOMAIN local |-> Number(local[i])]
  IN CompareFrom(r, l, 0)

\* ------------------------------------------------------------------------
\* Summary cards of the content script (content.js 49-103, 344-437). A card
\* is its id, what its body shows and whether its auto-dismiss timer is set.
\* ------------------------------------------------------------------------

MAX_VISIBLE_CARDS == 3

CardIds(cards) == {cards[i].id : i \in DOMAIN cards}

\* dismissCard: the card leaves activeCards and its timer is cleared.
dismissCard(cards, cardId) == SelectSeq(cards, LAMBDA c : c.id # cardId)

\* createLoadingCard: the oldest cards are dismissed while there are
\* MAX_VISIBLE_CARDS or more, then the loading card is pushed.
RECURSIVE createLoadingCard(_, _)
createLoadingCard(cards, cardId) ==
  IF Len(cards) >= MAX_VISIBLE_CARDS
  THEN createLoadingCard(dismissCard(cards, cards[1].id), cardId)
  ELSE Append(cards, [id |-> cardId, body |-> <<"loading", cardId>>, timerId |-> FALSE])

updateCard_Oldest(cards, cardId, content) ==
  IF cards = <<>> THEN cards
  ELSE LET at == IF cardId \in CardIds(cards) THEN cardId ELSE cards[1].id
       IN [i \in DOMAIN cards |->
             IF cards[i].id = at THEN [cards[i] EXCEPT !.body = content, !.timerId = TRUE]
             ELSE cards[i]]

\* updateCard: the card with this id gets the content and a 60 s timer; no
\* card with this id, no change.
updateCard(cards, cardId, content) ==
  [i \in DOMAIN cards |->
     IF cards[i].id = cardId THEN [cards[i] EXCEPT !.body = content, !.timerId = TRUE]
     ELSE cards[i]]

\* What processBookmark hands to updateCard: the summary or the raw-mode note
\* of its own response, or one of its error texts.
CardContents == {"tldr", "raw", "error", "lastError", "no content", "caught"}

\* ------------------------------------------------------------------------
\* extractPageContent (part_002 691-813), stage by stage. The DOM is what the
\* stages look at: whether the href holds the expected id, and the lengths of
\* the text of the first article container, of the collected thread, of the
\* heading-delimited container and of the primary content region.
\* ------------------------------------------------------------------------

ContentCap == 15000

\* text.slice(0, 15000), on the length of the text.
Capped_Whole(length) == length

Capped(length) == IF length > ContentCap THEN ContentCap ELSE length

\* A resolved value, with the stage that built it.
Extracted(stage, length) == [kind |-> "content", stage |-> stage, body |-> Capped(length)]

ThreadStageTried_Always(isArticleUrl) == TRUE

\* Line 735: `if (!isArticleUrl)`.
ThreadStageTried(isArticleUrl) == ~isArticleUrl

BudgetExhausted_Never(n) == FALSE

\* Lines 705 and 798: `attempts >= maxAttempts`.
BudgetExhausted(n) == n >= maxAttempts

\* One run of the interval callback, the n-th: Wait when it returns without
\* resolving, else the value it resolves with.
extractPageContent(expectedId, isArticleUrl, dom, n) ==
  IF expectedId # "" /\ ~dom.hrefHasId
  THEN IF ~BudgetExhausted(n) THEN Wait ELSE NULL
  ELSE IF dom.container > 100 THEN Extracted("article", dom.container)
  ELSE IF ThreadStageTried(isArticleUrl) /\ dom.thread > 50 THEN Extracted("thread", dom.thread)
  ELSE IF dom.headings > 200 THEN Extracted("headings", dom.headings)
  ELSE IF BudgetExhausted(n)
  THEN IF dom.region > 200 THEN Extracted("fallback", dom.region) ELSE NULL
  ELSE Wait

\* ------------------------------------------------------------------------
\* waitForTabLoad (background.js)

\* cleanup(): both listeners are removed; removing one that is no longer
\* registered does nothing.
cleanup_OnUpdatedOnly(registered) == registered \ {"onUpdated"}

cleanup(registered) == registered \ {"onUpdated", "onRemoved"}

\* The timeout fetchPageContent passes to waitForTabLoad.
LoadTimeoutMs == 15000

Seconds(ms) == ms \div 1000

\* ------------------------------------------------------------------------
\* clearHistory (popup.js)

\* The delay of the confirmation timer.
ConfirmWindowMs == 3000

\* One click on the clear button, given clearHistoryPending: the first click
\* arms the button and sets the timer, the second one clears the timer,
\* disarms the button and writes the empty list.
clearHistory_OneClick(pending) ==
  [pending |-> FALSE, timer |-> FALSE, btn |-> "plain", write |-> TRUE]

clearHistory(pending) ==
  IF ~pending
  THEN [pending |-> TRUE, timer |-> TRUE, btn |-> "confirming", write |-> FALSE]
  ELSE [pending |-> FALSE, timer |-> FALSE, btn |-> "plain", write |-> TRUE]

\* ------------------------------------------------------------------------
\* getOrCreateEncryptionKey, encryptApiKey, decryptApiKey,
\* migrateAndLoadSettings (popup.js; the key functions also in background.js)

\* The code that can be inside a key function at the same time: the popup's
\* migrateAndLoadSettings, the popup's saveSettings, and handleTLDRRequest
\* in the background script.
KeyCallers == {"migrate", "save", "background"}

\* A ciphertext: decryptable with the key it was made with, and only with it.
Cipher(key, text) == [kind |-> "cipher", key |-> key, text |-> text]

\* migrateAndLoadSettings after encryptApiKey: the storage steps in the order
\* of the awaits, then the load for display.
MigrationOrder_RemoveFirst == <<"remove", "setBlob", "localGet">>

MigrationOrder == <<"setBlob", "remove", "localGet">>

\* The step that follows `step` in the migration.
Following(step) ==
  LET i == CHOOSE k \in DOMAIN MigrationOrder : MigrationOrder[k] = step
  IN MigrationOrder[i + 1]

\* ------------------------------------------------------------------------
\* Specifications
\* ------------------------------------------------------------------------

LongQuote == Repeat("0123456789", 50)

\* Post records handed over by the content script.
Posts == {Post("Hello world", "", "", ""),
          Post("", "Card title", "", "short quote"),
          Post("", "", "raw text", LongQuote),
          Post("", "", "", "")}

ArticleUrls == {EmptyUrl,
                Url("https", "x.com", <<"alice", "article", "1234567890123">>, ""),
                Url("https", "evil.com", <<"i", "article", "1234567890123">>, "")}

QuotedUrls == {EmptyUrl,
               Url("https", "twitter.com", <<"bob", "status", "9876543210987">>, ""),
               Url("https", "sub.x.com", <<"bob", "status", "9876543210987">>, "")}

NoSettings == [provider |-> "", aiEnabled |-> FALSE, baseUrl |-> EmptyUrl, mdMode |-> ""]

FetchInit ==
  /\ f_pc = "idle"
  /\ f_url = EmptyUrl
  /\ f_caller = ""
  /\ f_ret = NULL
  /\ f_rejected = FALSE
  /\ tabId = 0
  /\ results = NULL
  /\ attempts = 0
  /\ href = EmptyUrl
  /\ pollHref = EmptyUrl
  /\ tabSeq = 0
  /\ openTabs = {}
  /\ createdTabs = {}
  /\ removeCalls = 0

ReqInit(pc, settled) ==
  /\ h_pc = pc
  /\ settings = NoSettings
  /\ articleContent = NULL
  /\ quotedFullContent = NULL
  /\ apiKey = ""
  /\ prompt = NoPrompt
  /\ maxTokens = 0
  /\ endpoint = EmptyUrl
  /\ outcome = settled
  /\ steps = <<>>
  /\ encryptedApiKey = ""
  /\ httpRequests = <<>>
  /\ nativeCalls = 0

\* Storage contents that are not followed: every read may return any value.
Untracked == [kind |-> "untracked"]

\* The page and the popup before anything happened in them.
UiInit ==
  /\ activeCards = <<>>
  /\ cardSeq = 0
  /\ inFlight = {}
  /\ dropped = {}
  /\ page = NULL
  /\ pollTimer = FALSE
  /\ resolves = 0
  /\ listeners = {}
  /\ loadTimer = FALSE
  /\ elapsed = 0
  /\ clearHistoryPending = FALSE
  /\ clearHistoryTimer = FALSE
  /\ btn = "plain"
  /\ clicks = 0
  /\ clearWrites = 0
  /\ cleared = {}
  /\ syncApiKey = ""
  /\ encKey = 0
  /\ localBlob = NULL
  /\ keySeq = 0
  /\ keyCall = [p \in {"migrate", "save", "background"} |-> [pc |-> "idle", key |-> 0, use |-> "", text |-> "", blob |-> NULL, out |-> ""]]

EnvInit ==
  /\ permission = ""
  /\ reply = NULL
  /\ providerResult = NoResult
  /\ storage = Untracked
  /\ atStart = Untracked
  /\ popup = "idle"
  /\ call = ""
  /\ args = NULL
  /\ ret = NULL
  /\ UiInit

HistInit ==
  /\ history = <<>>
  /\ hist_pc = [p \in Calls |-> "idle"]
  /\ hist_arg = [p \in Calls |-> NoArg]
  /\ hist_list = [p \in Calls |-> <<>>]
  /\ clock = 0
  /\ created = {}

SaveInit ==
  /\ l_pc = "idle"
  /\ response = NULL
  /\ s_pc = "off"
  /\ lastSave = StaleSave
  /\ tierLog = <<>>
  /\ downloadId = 0
  /\ delta = NULL
  /\ timers = {}

\* One GENERATE_TLDR message from the content script, up to the point
\* where handleTLDRRequest settles.
Init ==
  /\ FetchInit
  /\ ReqInit("start", Pending)
  /\ SaveInit
  /\ EnvInit
  /\ HistInit
  /\ tweetData \in Posts
  /\ articleUrl \in ArticleUrls
  /\ quotedTweetUrl \in QuotedUrls
  /\ senderTabId = 0

RequestStep ==
  \/ ReadSettings
  \/ ArticleStep
  \/ ArticleReturns
  \/ QuotedStep
  \/ QuotedReturns
  \/ AiGate
  \/ ReadKey
  \/ DecryptKey
  \/ BuildPromptStep
  \/ PermissionAnswers
  \/ CallProvider
  \/ ProviderAnswers

Next == RequestStep \/ FetchStep

Spec == Init /\ [][Next]_vars

\* fetchPageContent on its own, called with any of FetchUrls.
FetchUrls == {EmptyUrl,
              Url("", "", <<"not-a-url">>, ""),
              Url("https", "evil.com", <<"page">>, ""),
              Url("https", "sub.x.com", <<"alice", "status", "1234567890123">>, ""),
              Url("https", "x.com.evil.com", <<"alice", "status", "1234567890123">>, ""),
              Url("https", "x.com", <<"alice", "status", "1234567890123">>, ""),
              Url("https", "X.COM", <<"alice", "status", "123456789">>, ""),
              Url("https", "twitter.com", <<"bob", "status", "9876543210987">>, "?s=20"),
              Url("https", "twitter.com", <<"bob", "status", "9876543210987", "photo", "1">>, ""),
              Url("https", "mobile.twitter.com", <<"i", "article", "1234567890">>, ""),
              Url("https", "x.com", <<"i", "articles", "intro">>, "")}

FetchSpecInit ==
  /\ FetchInit
  /\ ReqInit("off", Pending)
  /\ SaveInit
  /\ EnvInit
  /\ HistInit
  /\ tweetData = Post("", "", "", "")
  /\ articleUrl = EmptyUrl
  /\ quotedTweetUrl = EmptyUrl
  /\ senderTabId = 0

HarnessCall ==
  /\ h_pc = "off"
  /\ f_pc = "idle"
  /\ createdTabs = {}
  /\ \E url \in FetchUrls : FetchCall(url, "harness")
  /\ UNCHANGED <<reqVars, saveVars, histVars, envVars>>

FetchNext == HarnessCall \/ FetchStep

FetchSpec == FetchSpecInit /\ [][FetchNext]_vars

\* The listener's handlers and the persistence pipeline, from any way the
\* request can have settled.
\* The settings of the settled requests the listener is started from.
SettledSettings(aiEnabled, mdMode) ==
  [provider |-> "openai", aiEnabled |-> aiEnabled, baseUrl |-> EmptyUrl, mdMode |-> mdMode]

\* handleTLDRRequest as it has settled for a message without article or
\* quoted URL: AI disabled; summarised (either markdown mode); the provider
\* call failed; no key stored.
SettledRuns(post) ==
  LET p == buildPrompt(post, NULL, NULL, FALSE, FALSE)
      e == PROVIDER_DEFAULT_ENDPOINTS("openai")
      called == <<"credential", "prompt", "endpoint", "provider">>
      run(pc, st, blob, key, pr, mt, ep, out, sts, reqs) ==
        [pc |-> pc, settings |-> st, blob |-> blob, key |-> key, prompt |-> pr, maxTokens |-> mt,
         endpoint |-> ep, outcome |-> out, steps |-> sts, requests |-> reqs]
  IN {run("resolved", SettledSettings(FALSE, "tldr"), "", "", NoPrompt, 0, EmptyUrl,
          Resolved("", NULL, NULL, FALSE, "raw"), <<"shortcircuit">>, <<>>),
      run("resolved", SettledSettings(TRUE, "tldr"), "encrypted-key", "sk-key", p, 1000, e,
          Resolved("summary text", NULL, NULL, FALSE, "tldr"), called, <<e>>),
      run("resolved", SettledSettings(TRUE, "original"), "encrypted-key", "sk-key", p, 1000, e,
          Resolved("summary text", NULL, NULL, FALSE, "original"), called, <<e>>),
      run("rejected", SettledSettings(TRUE, "tldr"), "encrypted-key", "sk-key", p, 1000, e,
          Rejected("provider"), called, <<e>>),
      run("rejected", SettledSettings(TRUE, "tldr"), "absent", "", NoPrompt, 0, EmptyUrl,
          Rejected("noKey"), <<"credential">>, <<>>)}

\* The listener's promise handlers and saveMarkdownFile, started where
\* handleTLDRRequest has settled.
SaveSpecInit ==
  /\ FetchInit
  /\ SaveInit
  /\ EnvInit
  /\ HistInit
  /\ tweetData \in Posts
  /\ articleUrl = EmptyUrl
  /\ quotedTweetUrl = EmptyUrl
  /\ senderTabId \in {0, 42}
  /\ articleContent = NULL
  /\ quotedFullContent = NULL
  /\ nativeCalls = 0
  /\ \E r \in SettledRuns(tweetData) :
       /\ h_pc = r.pc
       /\ settings = r.settings
       /\ encryptedApiKey = r.blob
       /\ apiKey = r.key
       /\ prompt = r.prompt
       /\ maxTokens = r.maxTokens
       /\ endpoint = r.endpoint
       /\ outcome = r.outcome
       /\ steps = r.steps
       /\ httpRequests = r.requests

ListenerStep ==
  \/ ListenerCatch
  \/ ListenerThen
  \/ PrefsRead

SaveNext == ListenerStep \/ SaveStep \/ HistoryStep

SaveSpec == SaveSpecInit /\ [][SaveNext]_vars

\* One request, its listener and its save, with the settings page open: the
\* storage values are followed and every read returns what is stored.
Stored(provider, blob, autoDownloadMd, mdFolderPath) ==
  [provider |-> provider, encryptedApiKey |-> blob, autoDownloadMd |-> autoDownloadMd,
   mdFolderPath |-> mdFolderPath]

\* What the storage holds when the message arrives: a fresh installation, and
\* a configured one.
StartStorages == {Stored("openai", "absent", TRUE, ""),
                  Stored("claude", "encrypted-key", FALSE, "/Users/me/notes")}

\* The snapshot line 492 gets from a storage holding `st` (language, model,
\* baseUrl, mdMode and aiEnabled at their defaults).
SettingsOf(st) ==
  [provider |-> st.provider, aiEnabled |-> TRUE, baseUrl |-> EmptyUrl, mdMode |-> "tldr"]

\* The request has just started: its snapshot read of line 492 returned what
\* the storage holds.
SettingsSpecInit ==
  /\ storage \in StartStorages
  /\ atStart = storage
  /\ popup = "idle"
  /\ FetchInit
  /\ h_pc = "article"
  /\ settings = SettingsOf(storage)
  /\ articleContent = NULL
  /\ quotedFullContent = NULL
  /\ apiKey = ""
  /\ prompt = NoPrompt
  /\ maxTokens = 0
  /\ endpoint = EmptyUrl
  /\ outcome = Pending
  /\ steps = <<>>
  /\ encryptedApiKey = ""
  /\ httpRequests = <<>>
  /\ nativeCalls = 0
  /\ SaveInit
  /\ HistInit
  /\ permission = ""
  /\ reply = NULL
  /\ providerResult = NoResult
  /\ call = ""
  /\ args = NULL
  /\ ret = NULL
  /\ UiInit
  /\ tweetData = Post("Hello world", "", "", "")
  /\ articleUrl \in {EmptyUrl, Url("https", "x.com", <<"alice", "article", "1234567890123">>, "")}
  /\ quotedTweetUrl = EmptyUrl
  /\ senderTabId = 0

\* Popup saveSettings up to its first storage write (1126-1149): the key of
\* the form, which is not empty, is encrypted and stored.
SaveSettingsKey ==
  /\ popup = "idle"
  /\ storage' = [storage EXCEPT !.encryptedApiKey = "encrypted-key"]
  /\ popup' = "sync"
  /\ UNCHANGED <<permission, reply, providerResult, atStart, call, args, ret, uiVars>>
  /\ UNCHANGED <<fetchVars, reqVars, saveVars, histVars>>

\* Popup saveSettings lines 1152-1158: the form's provider and auto-download
\* flag are stored.
SaveSettingsSync ==
  /\ popup = "sync"
  /\ \E provider \in {"openai", "claude"}, flag \in BOOLEAN :
       storage' = [storage EXCEPT !.provider = provider, !.autoDownloadMd = flag]
  /\ popup' = "idle"
  /\ UNCHANGED <<permission, reply, providerResult, atStart, call, args, ret, uiVars>>
  /\ UNCHANGED <<fetchVars, reqVars, saveVars, histVars>>

\* PICK_NATIVE_FOLDER (46-60): the folder the user picked is stored.
PickFolder ==
  /\ storage.mdFolderPath = ""
  /\ storage' = [storage EXCEPT !.mdFolderPath = "/Users/me/notes"]
  /\ UNCHANGED <<permission, reply, providerResult, atStart, popup, call, args, ret, uiVars>>
  /\ UNCHANGED <<fetchVars, reqVars, saveVars, histVars>>

\* The later storage reads of the request, returning what is stored now.
StoredKeyRead == ReadKeyOf({storage.encryptedApiKey})

StoredPrefsRead == PrefsReadOf({IF storage.autoDownloadMd THEN "on" ELSE "off"})

StoredFolderRead == NativeFolderReadOf({storage.mdFolderPath})

SettingsNext ==
  \/ ArticleStep
  \/ ArticleReturns
  \/ QuotedStep
  \/ AiGate
  \/ StoredKeyRead
  \/ DecryptKey
  \/ BuildPromptStep
  \/ CallProvider
  \/ ProviderAnswers
  \/ FetchStep
  \/ ListenerCatch
  \/ ListenerThen
  \/ StoredPrefsRead
  \/ StoredFolderRead
  \/ NativeAnswers
  \/ DownloadStarts
  \/ DownloadChanged
  \/ DownloadTimeout
  \/ HistoryStep
  \/ SaveSettingsKey
  \/ SaveSettingsSync
  \/ PickFolder

SettingsSpec == SettingsSpecInit /\ [][SettingsNext]_vars

\* An entry stored by an earlier session, i entries back.
OldEntry(i) == Entry(0 - i, HistoryArg(Post("an older post", "", "", ""), "an older summary", FALSE))

OldList(n) == [i \in 1..n |-> OldEntry(i)]

Range(list) == {list[i] : i \in DOMAIN list}

\* Arguments of the saveToHistory calls of other resolved requests.
HistoryArgs == {HistoryArg(Post("a post", "", "", ""), "summary text", FALSE),
                HistoryArg(Post("", "", LongQuote, "fallback"), "", TRUE)}

\* The history store as earlier sessions left it: empty or one short of
\* full; no request is running.
HistorySpecInit ==
  /\ FetchInit
  /\ ReqInit("off", Pending)
  /\ SaveInit
  /\ EnvInit
  /\ tweetData = Post("", "", "", "")
  /\ articleUrl = EmptyUrl
  /\ quotedTweetUrl = EmptyUrl
  /\ senderTabId = 0
  /\ history \in {<<>>, OldList(MAX_HISTORY - 1)}
  /\ hist_pc = [p \in Calls |-> "idle"]
  /\ hist_arg = [p \in Calls |-> NoArg]
  /\ hist_list = [p \in Calls |-> <<>>]
  /\ clock = 0
  /\ created = Range(history)

\* The listener of another resolved GENERATE_TLDR message calls
\* saveToHistory (line 27).
HistoryCall ==
  /\ clock < MaxEntries
  /\ \E p \in Calls, arg \in HistoryArgs :
       /\ hist_pc[p] \in {"idle", "done", "caught"}
       /\ SaveToHistoryCall(p, arg)
  /\ UNCHANGED <<fetchVars, reqVars, saveVars, envVars>>

HistoryNext == HistoryCall \/ HistoryStep \/ ClearHistory

HistorySpec == HistorySpecInit /\ [][HistoryNext]_vars

\* Base URLs chrome.storage.sync can hold for resolveApiEndpoint: none, an
\* origin alone, version paths (with a trailing slash, with a query), full
\* API routes, another path, a plain-http local proxy, an ftp URL, and a
\* text that does not parse.
Proxy(path, tail) == Url("https", "proxy.example.com", path, tail)

EndpointBaseUrls ==
  {EmptyUrl,
   Proxy(<<>>, ""),
   Proxy(<<"v1">>, ""),
   Proxy(<<"v1", "">>, ""),
   Proxy(<<"v1">>, "?team=a"),
   Proxy(<<"v1", "chat", "completions">>, ""),
   Proxy(<<"v1", "messages">>, ""),
   Proxy(<<"api", "paas", "v4">>, ""),
   Proxy(<<"openai">>, ""),
   Url("http", "localhost", <<"v2", "chat", "completions", "">>, ""),
   Url("ftp", "files.example.com", <<"v1">>, ""),
   Url("", "", <<"proxy">>, "")}

\* handleTLDRRequest at line 544 for a post without article or quoted URL,
\* AI enabled, the key decrypted (not read for local-claude).
EndpointSpecInit ==
  /\ FetchInit
  /\ SaveInit
  /\ EnvInit
  /\ HistInit
  /\ tweetData = Post("a post", "", "", "")
  /\ articleUrl = EmptyUrl
  /\ quotedTweetUrl = EmptyUrl
  /\ senderTabId = 0
  /\ h_pc = "prompt"
  /\ settings \in [provider : Providers, aiEnabled : {TRUE}, baseUrl : EndpointBaseUrls,
                   mdMode : {"tldr"}]
  /\ articleContent = NULL
  /\ quotedFullContent = NULL
  /\ encryptedApiKey = (IF NeedsKey(settings) THEN "encrypted-key" ELSE "")
  /\ apiKey = (IF NeedsKey(settings) THEN "sk-key" ELSE "")
  /\ steps = (IF NeedsKey(settings) THEN <<"credential">> ELSE <<>>)
  /\ prompt = NoPrompt
  /\ maxTokens = 0
  /\ endpoint = EmptyUrl
  /\ outcome = Pending
  /\ httpRequests = <<>>
  /\ nativeCalls = 0

EndpointNext == BuildPromptStep \/ PermissionAnswers \/ CallProvider \/ ProviderAnswers

EndpointSpec == EndpointSpecInit /\ [][EndpointNext]_vars

\* No request, fetch, save or history call is running and the storage is not
\* followed: the state in which a function is applied on its own.
ProgramIdle ==
  /\ FetchInit
  /\ ReqInit("off", Pending)
  /\ SaveInit
  /\ HistInit
  /\ permission = ""
  /\ reply = NULL
  /\ providerResult = NoResult
  /\ storage = Untracked
  /\ atStart = Untracked
  /\ popup = "idle"
  /\ UiInit
  /\ tweetData = Post("", "", "", "")
  /\ articleUrl = EmptyUrl
  /\ quotedTweetUrl = EmptyUrl
  /\ senderTabId = 0

Returns(name, value) ==
  /\ call = ""
  /\ call' = name
  /\ ret' = value
  /\ UNCHANGED <<permission, reply, providerResult, storage, atStart, popup, args, uiVars>>
  /\ UNCHANGED <<fetchVars, reqVars, saveVars, histVars>>

\* A post record as content.js sends it, with the members only the document
\* builder reads.
RichPost ==
  [text |-> "Hello world", cardText |-> "Card title", fallbackText |-> "",
   quotedText |-> "short quote", author |-> "Alice", tweetUrl |-> "https://x.com/alice/status/1",
   quotedAuthor |-> "Bob", metrics |-> [replies |-> "3", likes |-> "27"],
   referencedUrls |-> <<<<"h", "(", "a", ")", "[", "1", "]">>>>]

EmptyBodyDoc == [kind |-> "content", title |-> "Title", body |-> ""]

\* What handleTLDRRequest can resolve with (lines 518-523 and 570): raw mode
\* with tldr '', or the stored markdown mode with what the provider call gave.
OrchestratorResults ==
  {Resolved(r[1], ac, qc, HasBody(ac), r[2]) :
     r \in {<<"", "raw">>, <<"summary text", "tldr">>, <<"summary text", "original">>,
            <<undefined, "original">>},
     ac \in {NULL, ArticleDoc, ThreadDoc, EmptyBodyDoc},
     qc \in {NULL, ThreadDoc}}

MarkdownSpecInit ==
  /\ ProgramIdle
  /\ call = ""
  /\ args \in {[post |-> post, result |-> r] : post \in Posts \cup {RichPost}, r \in OrchestratorResults}
  /\ ret = NULL

\* saveMarkdownFile line 110.
BuildMarkdown ==
  Returns("buildMarkdownContent",
          buildMarkdownContent(args.post, args.result.tldr, args.result.articleContent,
                               args.result.quotedFullContent, args.result.isArticle,
                               args.result.mode))

MarkdownSpec == MarkdownSpecInit /\ [][BuildMarkdown]_vars

\* content.js processBookmark (68-103), from the click on the bookmark
\* button to the message it sends.
NoMessage == [type |-> "none"]

Message(post, aUrl, qUrl) ==
  [type |-> "GENERATE_TLDR", tweetData |-> post, articleUrl |-> aUrl, quotedTweetUrl |-> qUrl]

\* Lines 75-77: nothing to summarise.
RejectedUpstream_Never(post, aUrl, qUrl) == FALSE

RejectedUpstream(post, aUrl, qUrl) ==
  LET hasContent == post.text # "" \/ post.cardText # "" \/ post.quotedText # ""
                    \/ post.fallbackText # ""
  IN ~hasContent /\ aUrl = EmptyUrl /\ qUrl = EmptyUrl

\* What extractTweetContent, detectArticleUrl and detectQuotedTweetUrl will
\* find in the bookmarked post.
BookmarkSpecInit ==
  /\ ProgramIdle
  /\ call = ""
  /\ args \in {Message(post, aUrl, qUrl) : post \in Posts, aUrl \in ArticleUrls, qUrl \in QuotedUrls}
  /\ ret = NULL

\* Line 70: expandShowMore settles; a rejection reaches the catch of line 99.
ExpandShowMore ==
  /\ call = ""
  /\ \E expanded \in BOOLEAN : call' = (IF expanded THEN "extract" ELSE "caught")
  /\ UNCHANGED <<permission, reply, providerResult, storage, atStart, popup, args, ret, uiVars>>
  /\ UNCHANGED <<fetchVars, reqVars, saveVars, histVars>>

\* Lines 71-97: the post is read; it is rejected or the message is sent.
ExtractAndSend ==
  /\ call = "extract"
  /\ call' = "processBookmark"
  /\ ret' = IF RejectedUpstream(args.tweetData, args.articleUrl, args.quotedTweetUrl)
            THEN NoMessage
            ELSE Message(args.tweetData, args.articleUrl, args.quotedTweetUrl)
  /\ UNCHANGED <<permission, reply, providerResult, storage, atStart, popup, args, uiVars>>
  /\ UNCHANGED <<fetchVars, reqVars, saveVars, histVars>>

BookmarkNext == ExpandShowMore \/ ExtractAndSend

BookmarkSpec == BookmarkSpecInit /\ [][BookmarkNext]_vars

\* ------------------------------------------------------------------------
\* buildFileName on its own: saveMarkdownFile line 111 calls it with the post,
\* the fetched article and the clock of the moment.
\* ------------------------------------------------------------------------

MaxTitle == 52
MaxHandle == 31

Letters(n) == [i \in 1..n |-> "a"]

\* n characters with one space, at index k counted from 0.
WithSpaceAt(n, k) == [i \in 1..n |-> IF i = k + 1 THEN " " ELSE "a"]

HelloWorld == <<"H", "e", "l", "l", "o", " ", "w", "o", "r", "l", "d">>

ShortTitles ==
  {<<>>, HelloWorld, <<".", ".", ".", "h", "i">>, <<" ", ".", "x">>, <<".", ".", ".">>,
   <<"a", "/", "b", ":", "c", "\n", "\r", "d", NUL, "e", DEL, "\\", "|", "-", "f">>,
   <<NBSP, " ">>}

\* Titles around the 50-character limit, and one that is longer than 50 only
\* by its trailing blanks.
LongTitles ==
  {WithSpaceAt(n, k) : n \in 49..MaxTitle, k \in {19, 20, 21, 22, 30, 48}}
    \cup {Letters(n) : n \in 49..MaxTitle}
    \cup {WithSpaceAt(30, 25) \o [i \in 1..(MaxTitle - 30) |-> " "]}

Titles == ShortTitles \cup LongTitles

PostUrl(segments) == Url("https", "x.com", segments, "")

Status == <<"s", "t", "a", "t", "u", "s">>

PostUrls ==
  {EmptyUrl, PostUrl(<<>>), Url("", "", <<<<"a">>>>, "")}
    \cup {PostUrl(<<h, Status, <<"1">>>>) :
            h \in {<<"a", "l", "i", "c", "e">>, <<".", "h">>, <<".", ".", ".">>,
                   <<"a", ":", "b", "*">>, Letters(MaxHandle - 1), Letters(MaxHandle),
                   <<".">> \o Letters(MaxHandle - 1)}}

NamedPost(tweetUrl, url, text, cardText, fallbackText) ==
  [tweetUrl |-> tweetUrl, url |-> url, text |-> text, cardText |-> cardText,
   fallbackText |-> fallbackText]

TitledArticle(title) == [kind |-> "content", title |-> title]

Clocks ==
  {[year |-> 2026, month |-> 1, date |-> 11, hours |-> 14, minutes |-> 30, seconds |-> 22],
   [year |-> 2026, month |-> 11, date |-> 31, hours |-> 9, minutes |-> 5, seconds |-> 0]}

FileNameInputs ==
  {[post |-> NamedPost(u, EmptyUrl, t, <<>>, <<>>), article |-> NULL, isArticle |-> FALSE,
    now |-> now] : u \in PostUrls, t \in Titles, now \in Clocks}
  \cup {[post |-> NamedPost(EmptyUrl, u, <<>>, <<>>, t), article |-> TitledArticle(<<>>),
         isArticle |-> TRUE, now |-> now] : u \in PostUrls, t \in ShortTitles, now \in Clocks}
  \cup {[post |-> NamedPost(u, EmptyUrl, HelloWorld, t, <<>>), article |-> TitledArticle(t),
         isArticle |-> b, now |-> now] :
          u \in PostUrls, t \in Titles, b \in BOOLEAN, now \in Clocks}

FileNameSpecInit ==
  /\ ProgramIdle
  /\ call = ""
  /\ args \in FileNameInputs
  /\ ret = NULL

\* saveMarkdownFile line 111.
BuildFileName ==
  Returns("buildFileName", buildFileName(args.post, args.article, args.isArticle, args.now))

FileNameSpec == FileNameSpecInit /\ [][BuildFileName]_vars

\* ------------------------------------------------------------------------
\* stripArticleMetadataPrefix on its own, on bodies of several lines: a run
\* of metadata lines followed by content.
\* ------------------------------------------------------------------------

MaxRun == 27

\* The lines a split('\n') gives: at least one, '' for the empty text.
AsText(lines) == IF lines = <<>> THEN <<"">> ELSE lines

MetadataCycle == <<"Title", "Alice", "@alice", MiddleDot, "11 Feb 2026", "Follow", "", "27">>

MetadataRuns ==
  {[i \in 1..n |-> "27"] : n \in {0, 1, 2} \cup (24..MaxRun)}
    \cup {[i \in 1..n |-> MetadataCycle[((i - 1) % 8) + 1]] : n \in {5, 8} \cup (24..MaxRun)}
    \cup {[i \in 1..n |-> IF i = n THEN "302K" ELSE ""] : n \in 25..MaxRun}

ContentTails ==
  {<<>>, <<"Hello world">>, <<"Hello world", "27", "Following">>,
   <<LeftPad("Hello world"), "", RightPad("27 likes"), "">>, <<"@alice says", "Title">>}

StripInputs ==
  {[body |-> AsText(run \o tail), title |-> t[1], author |-> t[2]] :
     run \in MetadataRuns, tail \in ContentTails,
     t \in {<<"Title", "Alice">>, <<"", "">>, <<LeftPad("Title"), RightPad("Alice")>>}}

StripSpecInit ==
  /\ ProgramIdle
  /\ call = ""
  /\ args \in StripInputs
  /\ ret = NULL

\* buildMarkdownContent line 349.
StripPrefix ==
  Returns("stripArticleMetadataPrefix", StripLines(args.body, args.title, args.author))

StripSpec == StripSpecInit /\ [][StripPrefix]_vars

\* ------------------------------------------------------------------------
\* The two link escapers on their own: buildMarkdownContent lines 388-391
\* call both with each referenced URL.
\* ------------------------------------------------------------------------

MaxUrlLen == 3

UrlChars == {"a", "(", ")", "[", "]", "\\", "%", "2", "8", "9"}

RECURSIVE TextsUpTo(_)
TextsUpTo(n) ==
  IF n = 0 THEN {<<>>}
  ELSE LET shorter == TextsUpTo(n - 1)
       IN shorter \cup {<<c>> \o t : c \in UrlChars, t \in {s \in shorter : Len(s) = n - 1}}

ReferencedUrlTexts == TextsUpTo(MaxUrlLen)

EscapeSpecInit ==
  /\ ProgramIdle
  /\ call = ""
  /\ args \in ReferencedUrlTexts
  /\ ret = NULL

\* Line 389.
EscapeUrl == Returns("escapeMarkdownLinkUrl", escapeMarkdownLinkUrl(args))

\* Line 390.
EscapeText == Returns("escapeMarkdownLinkText", escapeMarkdownLinkText(args))

EscapeNext == EscapeUrl \/ EscapeText

EscapeSpec == EscapeSpecInit /\ [][EscapeNext]_vars

\* ------------------------------------------------------------------------
\* normalizeBaseUrl on its own: saveSettings (popup.js 317) calls it with the
\* trimmed text of the Base URL field.
\* ------------------------------------------------------------------------

SchemePrefixes ==
  {<<>>, <<"https", ":", "/", "/">>, <<"http", ":", "/", "/">>, <<"HTTPS", ":", "/", "/">>,
   <<"ftp", ":", "/", "/">>, <<"file", ":", "/", "/">>, <<"https", ":">>}

HostTexts ==
  {<<>>, <<"example.com">>, <<"Example.COM">>, <<"example.com", ":", "8080">>,
   <<"example.com", ":", "v1">>, <<" ">>, <<"example.com", " ", "v1">>}

PathTexts ==
  {<<>>, <<"/">>, <<"/", "v1">>, <<"/", "v1", "/">>, <<"/", "v1", "/", "/", "/">>,
   <<"/", "/">>, <<"/", "etc", "/", "passwd">>, <<"/", "v1", " ", "chat">>, <<"/", "v1", " ">>}

BaseUrlInputs == {p \o h \o t : p \in SchemePrefixes, h \in HostTexts, t \in PathTexts}

BaseUrlSpecInit ==
  /\ ProgramIdle
  /\ call = ""
  /\ args \in BaseUrlInputs
  /\ ret = NULL

\* popup.js line 317.
NormalizeBaseUrl == Returns("normalizeBaseUrl", normalizeBaseUrl(args))

BaseUrlSpec == BaseUrlSpecInit /\ [][NormalizeBaseUrl]_vars

\* ------------------------------------------------------------------------
\* isNewerVersion on its own: checkForUpdate (popup.js 510 and 531) calls it
\* with the latest release tag and the version of the manifest.
\* ------------------------------------------------------------------------

MaxSegments == 4

SegmentTexts == {"2", "10", "beta"}

RECURSIVE VersionsUpTo(_)
VersionsUpTo(n) ==
  IF n = 1 THEN {<<s>> : s \in SegmentTexts}
  ELSE LET shorter == VersionsUpTo(n - 1)
       IN shorter \cup {v \o <<s>> : v \in {w \in shorter : Len(w) = n - 1}, s \in SegmentTexts}

Versions == VersionsUpTo(MaxSegments)

VersionSpecInit ==
  /\ ProgramIdle
  /\ call = ""
  /\ args \in {[remote |-> r, local |-> l] : r \in Versions, l \in Versions}
  /\ ret = NULL

\* popup.js lines 510 and 531.
CompareVersions == Returns("isNewerVersion", isNewerVersion(args.remote, args.local))

VersionSpec == VersionSpecInit /\ [][CompareVersions]_vars

\* ------------------------------------------------------------------------
\* The content script on its own: bookmark clicks, responses in any order,
\* close buttons and auto-dismiss timers.
\* ------------------------------------------------------------------------

MaxClicks == 5

CardSpecInit ==
  /\ FetchInit
  /\ ReqInit("off", Pending)
  /\ SaveInit
  /\ HistInit
  /\ EnvInit
  /\ tweetData = Post("", "", "", "")
  /\ articleUrl = EmptyUrl
  /\ quotedTweetUrl = EmptyUrl
  /\ senderTabId = 0

OnlyCards ==
  UNCHANGED <<fetchVars, reqVars, saveVars, histVars, permission, reply, providerResult,
              storage, atStart, popup, call, args, ret, page, pollTimer, resolves,
              listeners, loadTimer, elapsed,
              clearHistoryPending, clearHistoryTimer, btn, clicks, clearWrites, cleared,
              syncApiKey, encKey, localBlob, keySeq, keyCall>>

\* Lines 49-64: a bookmark click creates the loading card and starts
\* processBookmark for it.
BookmarkClick ==
  /\ cardSeq < MaxClicks
  /\ cardSeq' = cardSeq + 1
  /\ activeCards' = createLoadingCard(activeCards, cardSeq + 1)
  /\ inFlight' = inFlight \cup {cardSeq + 1}
  /\ UNCHANGED dropped
  /\ OnlyCards

\* Lines 75-101: processBookmark calls updateCard once, from the response
\* callback, from the no-content branch or from its catch block.
CardResponse ==
  \E cardId \in inFlight, content \in CardContents :
    /\ activeCards' = updateCard(activeCards, cardId, <<content, cardId>>)
    /\ inFlight' = inFlight \ {cardId}
    /\ dropped' = IF cardId \in CardIds(activeCards) THEN dropped ELSE dropped \cup {cardId}
    /\ UNCHANGED cardSeq
    /\ OnlyCards

\* The close button (line 367) or the 60 s timer (line 422) calls dismissCard.
CardDismissed ==
  \E i \in DOMAIN activeCards :
    /\ activeCards' = dismissCard(activeCards, activeCards[i].id)
    /\ UNCHANGED <<cardSeq, inFlight, dropped>>
    /\ OnlyCards

CardNext == BookmarkClick \/ CardResponse \/ CardDismissed

CardSpec == CardSpecInit /\ [][CardNext]_vars

\* ------------------------------------------------------------------------
\* extractPageContent on its own, in a page that changes between the polls.
\* ------------------------------------------------------------------------

MaxTicks == 18

Pages ==
  [hrefHasId : BOOLEAN, container : {100, 101, 20000}, thread : {50, 51, 20000},
   headings : {200, 201}, region : {200, 201, 20000}]

ExtractSpecInit ==
  /\ ProgramIdle
  /\ call = ""
  /\ args \in [expectedId : {"", "1234567890123"}, isArticleUrl : BOOLEAN]
  /\ ret = NULL

OnlyExtract ==
  UNCHANGED <<f_pc, f_url, f_caller, f_ret, f_rejected, tabId, results, href, pollHref,
              tabSeq, openTabs, createdTabs, removeCalls, reqVars, saveVars, histVars,
              permission, reply, providerResult, storage, atStart, popup, args,
              activeCards, cardSeq, inFlight, dropped,
              listeners, loadTimer, elapsed,
              clearHistoryPending, clearHistoryTimer, btn, clicks, clearWrites, cleared,
              syncApiKey, encKey, localBlob, keySeq, keyCall>>

\* Lines 692-696: the promise is created and the interval timer set.
ExtractStarts ==
  /\ call = ""
  /\ call' = "extractPageContent"
  /\ pollTimer' = TRUE
  /\ \E dom \in Pages : page' = dom
  /\ UNCHANGED <<attempts, ret, resolves>>
  /\ OnlyExtract

\* The page renders, navigates or re-renders between two polls.
PageChanges ==
  /\ pollTimer
  /\ \E dom \in Pages \ {page} : page' = dom
  /\ UNCHANGED <<call, attempts, ret, pollTimer, resolves>>
  /\ OnlyExtract

\* Lines 696-811: the interval timer fires; every resolve comes with a
\* clearInterval.
Tick ==
  /\ pollTimer
  /\ attempts < MaxTicks
  /\ attempts' = attempts + 1
  /\ LET r == extractPageContent(args.expectedId, args.isArticleUrl, page, attempts + 1)
     IN IF r = Wait
        THEN UNCHANGED <<ret, pollTimer, resolves>>
        ELSE /\ ret' = r
             /\ pollTimer' = FALSE
             /\ resolves' = resolves + 1
  /\ UNCHANGED <<call, page>>
  /\ OnlyExtract

ExtractNext == ExtractStarts \/ PageChanges \/ Tick

ExtractSpec == ExtractSpecInit /\ [][ExtractNext]_vars

\* ------------------------------------------------------------------------
\* WaitSpec: waitForTabLoad(tabId, timeoutMs) among the tab events of the
\* browser.  The timer fires once its time has passed, and time passes.

MaxElapsed == 17

WatchedTabs == {1, 2}

WaitSpecInit ==
  /\ ProgramIdle
  /\ call = ""
  /\ args \in [tabId : WatchedTabs, timeoutMs : {LoadTimeoutMs}]
  /\ ret = NULL

OnlyWait ==
  UNCHANGED <<f_pc, f_url, f_caller, f_ret, f_rejected, tabId, results, attempts, href,
              pollHref, tabSeq, createdTabs, removeCalls, reqVars, saveVars, histVars,
              permission, reply, providerResult, storage, atStart, popup, args, ret,
              activeCards, cardSeq, inFlight, dropped, page, pollTimer,
              clearHistoryPending, clearHistoryTimer, btn, clicks, clearWrites, cleared,
              syncApiKey, encKey, localBlob, keySeq, keyCall>>

\* The promise executor: both listeners are added and the timer is set.  The
\* tab may already have been closed when the call is made.
WaitStarts ==
  /\ call = ""
  /\ call' = "waitForTabLoad"
  /\ listeners' = {"onUpdated", "onRemoved"}
  /\ loadTimer' = TRUE
  /\ elapsed' = 0
  /\ \E open \in SUBSET WatchedTabs : openTabs' = open
  /\ UNCHANGED resolves
  /\ OnlyWait

\* chrome.tabs.onUpdated fires for a tab and reaches the onUpdated listener.
OnUpdated(id, status) ==
  /\ call = "waitForTabLoad"
  /\ id \in openTabs
  /\ "onUpdated" \in listeners
  /\ IF id = args.tabId /\ status = "complete"
     THEN /\ listeners' = cleanup(listeners)
          /\ resolves' = resolves + 1
     ELSE UNCHANGED <<listeners, resolves>>
  /\ UNCHANGED <<call, openTabs, loadTimer, elapsed>>
  /\ OnlyWait

TabUpdated == \E id \in WatchedTabs, status \in {"loading", "complete"} : OnUpdated(id, status)

\* A tab is closed; chrome.tabs.onRemoved fires and reaches the onRemoved
\* listener if it is registered.
OnRemoved(id) ==
  /\ call = "waitForTabLoad"
  /\ id \in openTabs
  /\ openTabs' = openTabs \ {id}
  /\ IF "onRemoved" \in listeners /\ id = args.tabId
     THEN /\ listeners' = cleanup(listeners)
          /\ resolves' = resolves + 1
     ELSE UNCHANGED <<listeners, resolves>>
  /\ UNCHANGED <<call, loadTimer, elapsed>>
  /\ OnlyWait

TabRemoved == \E id \in WatchedTabs : OnRemoved(id)

SecondPasses ==
  /\ call = "waitForTabLoad"
  /\ elapsed < MaxElapsed
  /\ elapsed' = elapsed + 1
  /\ UNCHANGED <<call, openTabs, listeners, loadTimer, resolves>>
  /\ OnlyWait

\* The setTimeout callback: cleanup(), resolve().
TimeoutFires ==
  /\ call = "waitForTabLoad"
  /\ loadTimer
  /\ elapsed >= Seconds(args.timeoutMs)
  /\ loadTimer' = FALSE
  /\ listeners' = cleanup(listeners)
  /\ resolves' = resolves + 1
  /\ UNCHANGED <<call, openTabs, elapsed>>
  /\ OnlyWait

WaitNext ==
  \/ WaitStarts
  \/ TabUpdated
  \/ TabRemoved
  \/ SecondPasses
  \/ TimeoutFires

WaitSpec ==
  /\ WaitSpecInit
  /\ [][WaitNext]_vars
  /\ WF_vars(WaitStarts)
  /\ WF_vars(SecondPasses)
  /\ WF_vars(TimeoutFires)

\* ------------------------------------------------------------------------
\* ClearSpec: the clear button of the popup, its confirmation timer, and the
\* storage write of the empty list among saveToHistory calls of the
\* background script.  Time is counted in seconds from the click that armed
\* the button; the timer callback runs within the second in which it falls
\* due.

MaxPopupClicks == 3

ClearSpecInit ==
  /\ FetchInit
  /\ ReqInit("off", Pending)
  /\ SaveInit
  /\ EnvInit
  /\ tweetData = Post("", "", "", "")
  /\ articleUrl = EmptyUrl
  /\ quotedTweetUrl = EmptyUrl
  /\ senderTabId = 0
  /\ history \in {<<>>, OldList(2)}
  /\ hist_pc = [p \in Calls |-> "idle"]
  /\ hist_arg = [p \in Calls |-> NoArg]
  /\ hist_list = [p \in Calls |-> <<>>]
  /\ clock = 0
  /\ created = Range(history)

OnlyClear ==
  UNCHANGED <<fetchVars, reqVars, saveVars, hist_pc, hist_arg, hist_list, clock, created,
              permission, reply, providerResult, storage, atStart, popup, call, args, ret,
              activeCards, cardSeq, inFlight, dropped, page, pollTimer, resolves,
              listeners, loadTimer,
              syncApiKey, encKey, localBlob, keySeq, keyCall>>

\* The user clicks the clear button.
ClearClick ==
  /\ clicks < MaxPopupClicks
  /\ clicks' = clicks + 1
  /\ LET after == clearHistory(clearHistoryPending)
     IN /\ clearHistoryPending' = after.pending
        /\ clearHistoryTimer' = after.timer
        /\ btn' = after.btn
        /\ clearWrites' = IF after.write THEN clearWrites + 1 ELSE clearWrites
        /\ elapsed' = IF after.write THEN elapsed ELSE 0
  /\ UNCHANGED <<history, cleared>>
  /\ OnlyClear

\* A second passes while the button is armed.
ConfirmSecondPasses ==
  /\ clearHistoryTimer
  /\ elapsed < Seconds(ConfirmWindowMs)
  /\ elapsed' = elapsed + 1
  /\ UNCHANGED <<history, clearHistoryPending, clearHistoryTimer, btn, clicks, clearWrites,
                 cleared>>
  /\ OnlyClear

\* The timer callback: the button is back to its plain state.
ConfirmExpires ==
  /\ clearHistoryTimer
  /\ elapsed >= Seconds(ConfirmWindowMs)
  /\ clearHistoryTimer' = FALSE
  /\ clearHistoryPending' = FALSE
  /\ btn' = "plain"
  /\ UNCHANGED <<history, elapsed, clicks, clearWrites, cleared>>
  /\ OnlyClear

\* chrome.storage.local.set({ history: [] }) is applied; loadHistory then
\* reads and renders the list.
ClearSetResolves ==
  /\ clearWrites > 0
  /\ clearWrites' = clearWrites - 1
  /\ cleared' = cleared \cup Range(history)
  /\ history' = <<>>
  /\ UNCHANGED <<elapsed, clearHistoryPending, clearHistoryTimer, btn, clicks>>
  /\ OnlyClear

\* The write rejects: the list stays and nothing is rendered again.
ClearSetRejects ==
  /\ clearWrites > 0
  /\ clearWrites' = clearWrites - 1
  /\ UNCHANGED <<history, elapsed, clearHistoryPending, clearHistoryTimer, btn, clicks,
                 cleared>>
  /\ OnlyClear

\* The background script calls saveToHistory while the popup is open.
SaveWhilePopupOpen ==
  /\ clock < MaxEntries
  /\ \E p \in Calls :
       /\ hist_pc[p] \in {"idle", "done", "caught"}
       /\ SaveToHistoryCall(p, HistoryArg(Post("a post", "", "", ""), "summary text", FALSE))
  /\ UNCHANGED <<fetchVars, reqVars, saveVars, envVars>>

ClearNext ==
  \/ ClearClick
  \/ ConfirmSecondPasses
  \/ ConfirmExpires
  \/ ClearSetResolves
  \/ ClearSetRejects
  \/ SaveWhilePopupOpen
  \/ HistoryStep

ClearSpec == ClearSpecInit /\ [][ClearNext]_vars

\* ------------------------------------------------------------------------
\* KeySpec: the popup opens (migrateAndLoadSettings), the user saves a key
\* (saveSettings) and the background script decrypts the stored key, in any
\* interleaving of their awaits; every storage call may reject.

\* What the two storage areas hold when the popup opens: nothing, a plaintext
\* key of an earlier version, an encrypted key with its encryption key, or
\* both.
Profiles ==
  {[sync |-> s, key |-> 0, blob |-> NULL] : s \in {"", "sk-old"}}
  \cup {[sync |-> s, key |-> 1, blob |-> b] : s \in {"", "sk-old"},
                                                b \in {NULL, Cipher(1, "sk-local")}}

KeySpecInit ==
  /\ ProgramIdle
  /\ call = ""
  /\ args = NULL
  /\ ret = NULL

OnlyKeys ==
  UNCHANGED <<fetchVars, reqVars, saveVars, histVars, permission, reply, providerResult,
              storage, atStart, popup, args, ret,
              activeCards, cardSeq, inFlight, dropped, page, pollTimer, resolves,
              listeners, loadTimer, elapsed, clearHistoryPending, clearHistoryTimer, btn,
              clicks, clearWrites, cleared>>

Inside(p, pc) == keyCall[p].pc = pc

Goto(p, pc) == [keyCall EXCEPT ![p].pc = pc]

\* DOMContentLoaded: migrateAndLoadSettings is called and requests the sync
\* settings.
PopupOpens ==
  /\ call = ""
  /\ call' = "migrateAndLoadSettings"
  /\ \E profile \in Profiles :
       /\ syncApiKey' = profile.sync
       /\ encKey' = profile.key
       /\ localBlob' = profile.blob
       /\ keySeq' = profile.key
  /\ keyCall' = Goto("migrate", "syncGet")
  /\ OnlyKeys

\* chrome.storage.sync.get resolves: with a plaintext key the migration calls
\* encryptApiKey, without one it goes on to load the encrypted key.
SyncGetResolves ==
  /\ Inside("migrate", "syncGet")
  /\ keyCall' = IF syncApiKey # ""
                THEN [keyCall EXCEPT !["migrate"].pc = "getKey",
                                     !["migrate"].use = "encrypt",
                                     !["migrate"].text = syncApiKey]
                ELSE Goto("migrate", "localGet")
  /\ UNCHANGED <<call, syncApiKey, encKey, localBlob, keySeq>>
  /\ OnlyKeys

\* saveSettings with a key typed into the form: encryptApiKey is called.
SaveStarts ==
  /\ call = "migrateAndLoadSettings"
  /\ Inside("save", "idle")
  /\ keyCall' = [keyCall EXCEPT !["save"].pc = "getKey",
                                !["save"].use = "encrypt",
                                !["save"].text = "sk-new"]
  /\ UNCHANGED <<call, syncApiKey, encKey, localBlob, keySeq>>
  /\ OnlyKeys

\* handleTLDRRequest requests the encrypted key.
BackgroundStarts ==
  /\ call = "migrateAndLoadSettings"
  /\ Inside("background", "idle")
  /\ keyCall' = Goto("background", "localGet")
  /\ UNCHANGED <<call, syncApiKey, encKey, localBlob, keySeq>>
  /\ OnlyKeys

\* chrome.storage.local.get('encryptedApiKey') resolves: decryptApiKey is
\* called on what is stored; without a stored value the popup shows an empty
\* field and the background script throws.
LocalGetResolves(p) ==
  /\ Inside(p, "localGet")
  /\ keyCall' = IF localBlob # NULL
                THEN [keyCall EXCEPT ![p].pc = "getKey", ![p].use = "decrypt",
                                     ![p].blob = localBlob]
                ELSE Goto(p, IF p = "background" THEN "failed" ELSE "done")
  /\ UNCHANGED <<call, syncApiKey, encKey, localBlob, keySeq>>
  /\ OnlyKeys

\* getOrCreateEncryptionKey: chrome.storage.local.get('encKey') resolves.  A
\* stored key is imported; without one a key is generated and exported, and
\* its write is requested.
GetKeyResolves(p) ==
  /\ Inside(p, "getKey")
  /\ IF encKey # 0
     THEN /\ keyCall' = [keyCall EXCEPT ![p].pc = "haveKey", ![p].key = encKey]
          /\ UNCHANGED keySeq
     ELSE /\ keyCall' = [keyCall EXCEPT ![p].pc = "storeKey", ![p].key = keySeq + 1]
          /\ keySeq' = keySeq + 1
  /\ UNCHANGED <<call, syncApiKey, encKey, localBlob>>
  /\ OnlyKeys

\* chrome.storage.local.set({ encKey }) is applied; the key is returned.
StoreKeyResolves(p) ==
  /\ Inside(p, "storeKey")
  /\ encKey' = keyCall[p].key
  /\ keyCall' = Goto(p, "haveKey")
  /\ UNCHANGED <<call, syncApiKey, localBlob, keySeq>>
  /\ OnlyKeys

\* encryptApiKey encrypts with the key it got and its caller requests the
\* write of the ciphertext; decryptApiKey decrypts, which throws unless the
\* ciphertext was made with that key (the popup catches and shows an empty
\* field, the background script fails the request).
KeyUsed(p) ==
  /\ Inside(p, "haveKey")
  /\ keyCall' =
       IF keyCall[p].use = "encrypt"
       THEN [keyCall EXCEPT ![p].pc = IF p = "migrate" THEN MigrationOrder[1] ELSE "setBlob",
                            ![p].blob = Cipher(keyCall[p].key, keyCall[p].text)]
       ELSE IF keyCall[p].blob.key = keyCall[p].key
       THEN [keyCall EXCEPT ![p].pc = "done", ![p].out = keyCall[p].blob.text]
       ELSE Goto(p, IF p = "background" THEN "failed" ELSE "done")
  /\ UNCHANGED <<call, syncApiKey, encKey, localBlob, keySeq>>
  /\ OnlyKeys

\* chrome.storage.local.set({ encryptedApiKey }) is applied.
SetBlobResolves(p) ==
  /\ Inside(p, "setBlob")
  /\ localBlob' = keyCall[p].blob
  /\ keyCall' = Goto(p, IF p = "migrate" THEN Following("setBlob") ELSE "done")
  /\ UNCHANGED <<call, syncApiKey, encKey, keySeq>>
  /\ OnlyKeys

\* chrome.storage.sync.remove('apiKey') is applied.
SyncRemoveResolves ==
  /\ Inside("migrate", "remove")
  /\ syncApiKey' = ""
  /\ keyCall' = Goto("migrate", Following("remove"))
  /\ UNCHANGED <<call, encKey, localBlob, keySeq>>
  /\ OnlyKeys

\* A storage call rejects: migrateAndLoadSettings ends with the rejection,
\* saveSettings reports the failure, handleTLDRRequest rejects.
StorageRejects(p) ==
  /\ keyCall[p].pc \in {"syncGet", "localGet", "getKey", "storeKey", "setBlob", "remove"}
  /\ keyCall' = Goto(p, "failed")
  /\ UNCHANGED <<call, syncApiKey, encKey, localBlob, keySeq>>
  /\ OnlyKeys

KeyStep ==
  \E p \in KeyCallers :
    \/ LocalGetResolves(p)
    \/ GetKeyResolves(p)
    \/ StoreKeyResolves(p)
    \/ KeyUsed(p)
    \/ SetBlobResolves(p)
    \/ StorageRejects(p)

KeyNext ==
  \/ PopupOpens
  \/ SyncGetResolves
  \/ SaveStarts
  \/ BackgroundStarts
  \/ SyncRemoveResolves
  \/ KeyStep

KeySpec == KeySpecInit /\ [][KeyNext]_vars

\* ------------------------------------------------------------------------
\* Properties of the deep-fetch sandbox (checked under FetchSpec)
\* ------------------------------------------------------------------------

\* Ids of the tabs fetchPageContent has created.
CreatedIds == {t.id : t \in createdTabs}

NumericIdOf(url) ==
  LET pos == {i \in DOMAIN url.path : IsDigits(url.path[i]) /\ Len(url.path[i]) >= 10}
  IN IF pos = {} THEN "" ELSE url.path[CHOOSE i \in pos : \A j \in pos : i <= j]

C7_OnlyAllowedHosts ==
  /\ \A t \in createdTabs :
       /\ t.url.scheme # "" /\ t.url.host # ""
       /\ hostname(t.url) \in {"x.com", "twitter.com", "mobile.twitter.com"}
  /\ (f_pc # "idle" /\ ~(/\ f_url.scheme # "" /\ f_url.host # ""
                          /\ hostname(f_url) \in {"x.com", "twitter.com", "mobile.twitter.com"})) =>
       (f_pc = "returned" /\ f_ret = NULL /\ createdTabs = {})

\* A URL on a subdomain of an allowed host was refused without a tab.
C7_Witness ==
  /\ f_pc = "returned"
  /\ f_url.host = "sub.x.com"
  /\ f_ret = NULL
  /\ createdTabs = {}

\* C8: the promise of fetchPageContent never rejects, and when the call
\* returns without extracted content its value is null.
C8_NeverRejects ==
  /\ f_rejected = FALSE
  /\ (f_pc = "returned" /\ results = NULL) => f_ret = NULL

\* The tab was gone when the try block removed it and again when the catch
\* block did; the second rejection was swallowed and the call returned null.
C8_Witness ==
  /\ f_pc = "returned"
  /\ removeCalls = 2
  /\ f_rejected = FALSE
  /\ f_ret = NULL

\* ------------------------------------------------------------------------
\* Properties of handleTLDRRequest (checked under Spec)
\* ------------------------------------------------------------------------

\* The stored credential was read and is unusable: absent, undecryptable, or
\* the encryption of the empty string.
CredentialUnusable == encryptedApiKey \in {"absent", "corrupt", "encrypted-empty"}

IsPrefix(s, t) == Len(s) <= Len(t) /\ SubSeq(t, 1, Len(s)) = s

\* The order C3 states.
StatedRank(step) ==
  CASE step = "credential" -> 1
    [] step = "article" -> 2
    [] step = "quoted" -> 3
    [] step = "shortcircuit" -> 4
    [] step = "prompt" -> 5
    [] step = "endpoint" -> 6
    [] step = "provider" -> 7

StepsOf(aUrl, qUrl, post, s) ==
  (IF aUrl # EmptyUrl THEN <<"article">> ELSE <<>>)
  \o (IF qUrl # EmptyUrl /\ Len(post.quotedText) < 500 THEN <<"quoted">> ELSE <<>>)
  \o (IF ~s.aiEnabled THEN <<"shortcircuit">>
      ELSE (IF s.provider # "local-claude" THEN <<"credential">> ELSE <<>>)
           \o <<"prompt", "endpoint", "provider">>)

\* The step at which a request with the given error stopped.
FailedStep(err) ==
  CASE err \in {"noKey", "decryptFailed"} -> "credential"
    [] err \in {"badBaseUrl", "permission", "unsupported"} -> "endpoint"
    [] err = "provider" -> "provider"
    [] OTHER -> "none"

C4_AiDisabledShortCircuit ==
  (h_pc # "start" /\ ~settings.aiEnabled) =>
     /\ prompt = NoPrompt
     /\ endpoint = EmptyUrl
     /\ encryptedApiKey = ""
     /\ httpRequests = <<>>
     /\ nativeCalls = 0
     /\ h_pc \in {"article", "awaitArticle", "quoted", "awaitQuoted", "gate", "resolved"}
     /\ h_pc = "resolved" => (outcome.tldr = "" /\ outcome.mode = "raw")

\* A request with AI disabled, provider openai, a custom base URL and markdown
\* mode 'tldr' resolved raw.
C4_Witness ==
  /\ h_pc = "resolved"
  /\ ~settings.aiEnabled
  /\ settings.provider = "openai"
  /\ settings.baseUrl # EmptyUrl
  /\ settings.mdMode = "tldr"
  /\ outcome.tldr = ""
  /\ outcome.mode = "raw"

TierRank(name) ==
  CASE name = "native" -> 1
    [] name = "content-script" -> 2
    [] name = "downloads" -> 3

\* The tiers that have reported so far did not succeed.
NoneSucceeded == \A i \in DOMAIN tierLog : tierLog[i].reported # "success"

\* C9: the tiers are attempted in the order native helper, content-script
\* download, download manager; a tier is attempted only after every earlier
\* tier failed or was inapplicable (the content-script tier is inapplicable
\* without a sender tab); after a tier reported success no later tier is
\* attempted, so at most one tier saves the document.
C9_TiersInOrder ==
  /\ \A i, j \in DOMAIN tierLog : i < j =>
       /\ TierRank(tierLog[i].tier) < TierRank(tierLog[j].tier)
       /\ tierLog[i].reported # "success"
  /\ \A i \in DOMAIN tierLog : tierLog[i].tier = "content-script" => senderTabId # 0
  /\ tierLog # <<>> => tierLog[1].tier = "native"
  /\ s_pc \in {"nativeGet", "nativeSend"} => tierLog = <<>>
  /\ s_pc = "pageSend" => (Len(tierLog) = 1 /\ NoneSucceeded)
  /\ s_pc \in {"dlStart", "dlWait"} =>
       /\ Len(tierLog) = (IF senderTabId # 0 THEN 2 ELSE 1)
       /\ NoneSucceeded
  /\ (s_pc = "done" /\ tierLog[Len(tierLog)].reported = "success") => lastSave.success

\* The helper and the content-script download failed and the download
\* manager then saved the document.
C9_Witness ==
  /\ s_pc = "done"
  /\ Len(tierLog) = 3
  /\ tierLog[1] = Tier("native", "failed")
  /\ tierLog[2] = Tier("content-script", "failed")
  /\ tierLog[3] = Tier("downloads", "success")

\* C10: every completed run of saveMarkdownFile has written lastSave: a
\* success record when a tier succeeded, a failure record when every tier
\* failed, was interrupted or timed out.
C10_EveryRunRecorded ==
  s_pc = "done" =>
     /\ lastSave # StaleSave
     /\ lastSave.success = (tierLog[Len(tierLog)].reported = "success")

\* ------------------------------------------------------------------------
\* Properties of the listener and of the save tiers (checked under SaveSpec)
\* ------------------------------------------------------------------------

\* C11: once handleTLDRRequest has resolved, the response sent for the
\* message is the success response with that result's tldr and mode, whatever
\* the history write, the autoDownloadMd read and the save tiers do.
C11_SuccessResponseSent ==
  (h_pc = "resolved" /\ l_pc = "done") =>
     response = [success |-> TRUE, tldr |-> outcome.tldr, mode |-> outcome.mode]

\* C12: lastSave holds the download tier's success record only after
\* onChanged received state 'complete' for the id chrome.downloads.download
\* returned, and its failure record only after 'interrupted' for that id;
\* while the tier is still waiting (the download was started, deltas of other
\* ids or without a final state arrived) it has written no record.
C12_SuccessOnlyAfterComplete ==
  /\ lastSave = SaveOk("downloads") =>
       (s_pc = "done" /\ delta = [id |-> downloadId, state |-> "complete"])
  /\ lastSave = SaveFailed("downloads") =>
       (s_pc = "done" /\ delta = [id |-> downloadId, state |-> "interrupted"])
  /\ s_pc = "dlWait" =>
       (lastSave = StaleSave /\ tierLog[Len(tierLog)].tier # "downloads")

\* The tier is still waiting after 'complete' arrived for another download.
C12_Witness ==
  /\ s_pc = "dlWait"
  /\ delta # NULL
  /\ delta.id # downloadId
  /\ delta.state = "complete"
  /\ lastSave = StaleSave

\* C13: every tier that waits for an acknowledgement or a state change has
\* a completion timer of its own armed while it waits, so the run ends even
\* when the awaited event never arrives.
C13_EveryWaitHasTimeout ==
  /\ s_pc = "pageSend" => "page" \in timers
  /\ s_pc = "dlWait" => "download" \in timers

\* ------------------------------------------------------------------------
\* Properties of the endpoint resolution and the provider call
\* ------------------------------------------------------------------------

\* C14 as stated: with a custom base URL a provider HTTP request is sent
\* only after the permission check confirmed the origin granted; when it is
\* not granted or the check cannot confirm it, the request is rejected and
\* nothing is sent.
C14_RequestOnlyWhenGranted ==
  (settings.baseUrl # EmptyUrl /\ httpRequests # <<>>) => permission = "granted"

\* C14, amended: with a custom base URL a provider HTTP request is sent only
\* after ensureBaseUrlPermission resolved, which it does when
\* chrome.permissions.contains reported the origin granted and also when the
\* chrome.permissions API is not available (the check is then skipped); when
\* contains() reports the origin not granted or sets lastError, the request
\* is rejected with the permission error and no HTTP request is sent.
C14_RequestOnlyAfterCheck ==
  /\ (settings.baseUrl # EmptyUrl /\ (httpRequests # <<>> \/ h_pc \in {"call", "awaitProvider"})) =>
       permission \in {"granted", "noApi"}
  /\ permission \in {"denied", "lastError"} =>
       /\ h_pc = "rejected"
       /\ outcome = Rejected("permission")
       /\ httpRequests = <<>>
       /\ nativeCalls = 0
       /\ endpoint = EmptyUrl

\* A request with a custom base URL whose origin was found granted sent its
\* provider request to the resolved endpoint.
C14_Witness ==
  /\ settings.baseUrl # EmptyUrl
  /\ permission = "granted"
  /\ httpRequests = <<endpoint>>
  /\ endpoint.host = settings.baseUrl.host

\* C15: a configured base URL that is not an absolute http or https URL
\* makes the request fail before an endpoint is produced, so no endpoint and
\* no provider request has another scheme.
C15_OnlyHttpEndpoints ==
  /\ endpoint # EmptyUrl => endpoint.scheme \in {"http", "https"}
  /\ \A i \in DOMAIN httpRequests : httpRequests[i].scheme \in {"http", "https"}

\* The origin of a parsed URL and a path.
At(parsed, path) == Url(parsed.scheme, hostname(parsed), path, "")

\* The endpoint C16 gives for a provider and a base URL that parses.
StatedEndpoint(provider, base) ==
  LET suffix == IF provider = "claude" THEN <<"messages">> ELSE <<"chat", "completions">>
      path == StripSlashes(base.path)
      n == Len(path)
      version(seg) == seg \in {"v1", "v2", "v4"}
  IN CASE n >= 3 /\ version(path[n - 2]) /\ path[n - 1] = "chat" /\ path[n] = "completions" ->
            At(base, path)
       [] n >= 2 /\ version(path[n - 1]) /\ path[n] = "messages" -> At(base, path)
       [] n >= 1 /\ version(path[n]) -> At(base, path \o suffix)
       [] n = 0 -> At(base, <<"v1">> \o suffix)
       [] OTHER -> At(base, path \o suffix)

\* C16: resolveApiEndpoint returns the provider's default endpoint when no
\* base URL is set; for a base URL it returns the URL as it is when the path
\* ends in /vN/chat/completions or /vN/messages, path + suffix when the path
\* ends in /vN, origin + /v1 + suffix for an empty path, else path + suffix,
\* trailing slashes and the query dropped; suffix is /messages for claude and
\* /chat/completions for the others. https://proxy.example.com/v1 with
\* openai gives .../v1/chat/completions, https://proxy.example.com with
\* claude gives .../v1/messages.
C16_EndpointTable ==
  h_pc \in {"call", "awaitProvider", "resolved"} =>
     /\ settings.baseUrl = EmptyUrl =>
          endpoint = (CASE settings.provider = "openai" ->
                             Url("https", "api.openai.com", <<"v1", "chat", "completions">>, "")
                        [] settings.provider = "claude" ->
                             Url("https", "api.anthropic.com", <<"v1", "messages">>, "")
                        [] settings.provider = "kimi" ->
                             Url("https", "api.moonshot.cn", <<"v1", "chat", "completions">>, "")
                        [] settings.provider = "zhipu" ->
                             Url("https", "open.bigmodel.cn",
                                 <<"api", "paas", "v4", "chat", "completions">>, "")
                        [] OTHER -> EmptyUrl)
     /\ settings.baseUrl # EmptyUrl =>
          endpoint = StatedEndpoint(settings.provider, settings.baseUrl)
     /\ (settings.baseUrl = Proxy(<<"v1">>, "") /\ settings.provider = "openai") =>
          endpoint = Proxy(<<"v1", "chat", "completions">>, "")
     /\ (settings.baseUrl = Proxy(<<>>, "") /\ settings.provider = "claude") =>
          endpoint = Proxy(<<"v1", "messages">>, "")

\* The claude request for the bare origin https://proxy.example.com went to
\* https://proxy.example.com/v1/messages.
C16_Witness ==
  /\ h_pc = "awaitProvider"
  /\ settings.provider = "claude"
  /\ settings.baseUrl = Proxy(<<>>, "")
  /\ httpRequests = <<Proxy(<<"v1", "messages">>, "")>>

\* The text at the dialect's response path (choices[0].message.content, or
\* content[0].text for claude), `undefined` when the path is not there.
ExpectedText(provider, body) ==
  IF provider = "claude"
  THEN IF "content" \in DOMAIN body /\ Len(body.content.items) > 0
          /\ "text" \in DOMAIN body.content.items[1]
       THEN body.content.items[1].text
       ELSE undefined
  ELSE IF "choices" \in DOMAIN body /\ Len(body.choices.items) > 0
          /\ "message" \in DOMAIN body.choices.items[1]
          /\ "content" \in DOMAIN body.choices.items[1].message
       THEN body.choices.items[1].message.content
       ELSE undefined

\* The provider's own error message of a failed response, `undefined` when the
\* body carries none.
OwnMessage(res) ==
  IF res.json /\ "error" \in DOMAIN res.body /\ "message" \in DOMAIN res.body.error
  THEN res.body.error.message
  ELSE undefined

\* C17: a provider call over HTTP resolves only with the text found at the
\* dialect's response path; a non-success status rejects with the provider's
\* own message when the body carries one and with "<Provider> API error:
\* <status>" otherwise; a success response that is JSON but lacks the text
\* rejects with "unexpected response format".
C17_ProviderCallContract ==
  (providerResult # NoResult /\ settings.provider # "local-claude" /\ reply # NetworkFailure) =>
    LET label == ProviderLabel(settings.provider)
        text == ExpectedText(settings.provider, reply.body)
    IN /\ providerResult.settled = "resolved" =>
            (ok(reply) /\ reply.json /\ text # undefined /\ providerResult.value = text)
       /\ ~ok(reply) =>
            providerResult = Thrown(IF OwnMessage(reply) # undefined THEN OwnMessage(reply)
                                    ELSE ApiError(label, reply.status))
       /\ (ok(reply) /\ reply.json /\ text = undefined) =>
            providerResult = Thrown(UnexpectedFormat(label))

\* How often a step occurs in the request's log of calls.
Count(log, step) == Cardinality({i \in DOMAIN log : log[i] = step})

\* C18: one GENERATE_TLDR request issues at most one provider call (one HTTP
\* request or one native message), at most one fetchPageContent call for the
\* article URL and at most one for the quoted-post URL, and opens at most one
\* background tab per fetch; so nothing is issued again after it failed.
C18_NoRetry ==
  /\ Count(steps, "provider") <= 1
  /\ Len(httpRequests) + nativeCalls <= 1
  /\ Count(steps, "article") <= 1
  /\ Count(steps, "quoted") <= 1
  /\ Cardinality(createdTabs) <= Count(steps, "article") + Count(steps, "quoted")
  /\ \A t \in createdTabs : t.url \in {articleUrl, quotedTweetUrl}

\* The article fetch came back empty, the quoted fetch ran as well, the
\* provider call failed and the request ended with exactly one of each.
C18_Witness ==
  /\ h_pc = "rejected"
  /\ providerResult.settled = "rejected"
  /\ articleContent = NULL
  /\ Count(steps, "article") = 1
  /\ Count(steps, "quoted") = 1
  /\ Cardinality(createdTabs) = 2
  /\ Len(httpRequests) = 1

\* The stored list holds at most MAX_HISTORY entries, newest first.
HistoryBoundedNewestFirst ==
  /\ Len(history) <= MAX_HISTORY
  /\ \A i \in 1..(Len(history) - 1) : history[i].timestamp > history[i + 1].timestamp

\* What one saveToHistory call does to the list it read: a new entry at
\* index 0, the entries read behind it in their order, and of a list of
\* MAX_HISTORY entries all but the last; the write stores exactly that list.
AppendStep ==
  \A p \in Calls :
    /\ (hist_pc[p] = "get" /\ hist_pc'[p] = "set") =>
         /\ hist_list'[p][1] \notin created
         /\ \A i \in DOMAIN history : hist_list'[p][1].timestamp > history[i].timestamp
         /\ Len(hist_list'[p]) = (IF Len(history) < MAX_HISTORY THEN Len(history) + 1
                                  ELSE MAX_HISTORY)
         /\ \A i \in 2..Len(hist_list'[p]) : hist_list'[p][i] = history[i - 1]
    /\ (hist_pc[p] = "set" /\ hist_pc'[p] = "done") =>
         history' = hist_list[p]

\* C19: after any sequence of appends and clears the stored history holds at
\* most MAX_HISTORY (200) entries, newest first; an append puts the new entry
\* at index 0, keeps the order of the rest, and drops exactly the last entry
\* of a list that already held 200.
C19_BoundedNewestFirst == []HistoryBoundedNewestFirst /\ [][AppendStep]_vars

\* An append to a list of 200 entries has been stored: the newest entry is at
\* index 0, the previous newest behind it, and of the older entries exactly
\* the last one is gone.
C19_Witness ==
  /\ Len(history) = MAX_HISTORY
  /\ history[1].timestamp = 2
  /\ history[2].timestamp = 1
  /\ history[MAX_HISTORY] = OldEntry(MAX_HISTORY - 2)
  /\ OldEntry(MAX_HISTORY - 1) \notin Range(history)

\* The entry a call built (the head of its list).
NewEntry(p) == hist_list[p][1]

\* Both calls have written, and each read the stored list before the other
\* wrote: neither list holds the other call's entry.
BothWroteSameSnapshot ==
  /\ \A p \in Calls : hist_pc[p] = "done"
  /\ NewEntry(1) \notin Range(hist_list[2])
  /\ NewEntry(2) \notin Range(hist_list[1])

\* C20: when two saveToHistory calls both read the stored list before either
\* writes, the stored list ends with exactly one of the two new entries (or
\* empty, when the history was cleared after them); and in every interleaving
\* the stored list has no entry twice, no two entries with one id, only
\* entries exactly as they were built, and at most 200 of them.
C20_LostUpdateOnly ==
  /\ BothWroteSameSnapshot =>
       \/ history = <<>>
       \/ (NewEntry(1) \in Range(history)) # (NewEntry(2) \in Range(history))
  /\ Cardinality(Range(history)) = Len(history)
  /\ Cardinality({history[i].id : i \in DOMAIN history}) = Len(history)
  /\ Range(history) \subseteq created
  /\ Len(history) <= MAX_HISTORY

\* Two calls raced on a store of 199 entries and both wrote: the stored list
\* is full and holds the entry of one call only.
C20_Witness ==
  /\ BothWroteSameSnapshot
  /\ Len(history) = MAX_HISTORY
  /\ NewEntry(2) \in Range(history)
  /\ NewEntry(1) \notin Range(history)
  /\ NewEntry(1).timestamp > NewEntry(2).timestamp

\* The request has read the stored credential.
KeyWasRead == "credential" \in Range(steps) /\ h_pc # "key"

\* C21: every setting an in-flight request consults has the value that was
\* stored when the request started: the settings snapshot, the stored
\* credential, the auto-download flag and the save directory.
C21_SettingsAsAtStart ==
  /\ settings = SettingsOf(atStart)
  /\ KeyWasRead => encryptedApiKey = atStart.encryptedApiKey
  /\ (l_pc = "done" /\ response.success) => ((s_pc # "off") = atStart.autoDownloadMd)
  /\ tierLog # <<>> =>
       ((tierLog[1].reported = "inapplicable") = (atStart.mdFolderPath = ""))

\* ------------------------------------------------------------------------
\* Properties of the Markdown document (checked under MarkdownSpec)
\* ------------------------------------------------------------------------

\* The document has the heading line, followed by an empty line and `text`.
SectionHolds(doc, heading, text) ==
  \E i \in 1..(Len(doc) - 2) : doc[i] = heading /\ doc[i + 1] = "" /\ doc[i + 2] = text

\* The text of a post that is not an article, as the raw document shows it.
RawPostText(post) ==
  IF post.text # "" THEN post.text
  ELSE IF post.cardText # "" THEN post.cardText
  ELSE post.fallbackText

\* C22: the document has a '## TLDR' section, holding the tldr text, exactly
\* when mode is not 'raw', and a '## Original Content' section exactly when
\* mode is 'original' or 'raw'; a raw-mode result (tldr '') gives Original
\* Content with the post's text and no TLDR heading.
C22_SectionsFollowMode ==
  call = "buildMarkdownContent" =>
    LET mode == args.result.mode
        tldr == args.result.tldr
    IN /\ ("## TLDR" \in Range(ret)) = (mode # "raw")
       /\ (mode # "raw" /\ tldr # undefined) => SectionHolds(ret, "## TLDR", tldr)
       /\ ("## Original Content" \in Range(ret)) = (mode \in {"original", "raw"})
       /\ (mode = "raw" /\ ~args.result.isArticle /\ RawPostText(args.post) # "") =>
            SectionHolds(ret, "## Original Content", RawPostText(args.post))

\* The document of an AI-disabled result for a post with text, and the
\* document of a summary-mode result, have been built.
C22_Witness ==
  /\ call = "buildMarkdownContent"
  /\ args.result.mode = "raw"
  /\ args.result.tldr = ""
  /\ args.post = RichPost
  /\ "## Original Content" \in Range(ret)
  /\ "## TLDR" \notin Range(ret)
  /\ "- [h(a)\\[1\\]](h%28a%29[1])" \in Range(ret)

\* ------------------------------------------------------------------------
\* Properties of processBookmark (checked under BookmarkSpec)
\* ------------------------------------------------------------------------

HasText(post) ==
  post.text # "" \/ post.cardText # "" \/ post.fallbackText # "" \/ post.quotedText # ""

\* C23 as stated: every post record sent to the background has at least one
\* of text, cardText, fallbackText, quotedText non-empty, whether or not an
\* article URL or a quoted-post URL was detected.
C23_EverySentRecordHasText ==
  (call = "processBookmark" /\ ret # NoMessage) => HasText(ret.tweetData)

\* C23: processBookmark sends the GENERATE_TLDR message, with the record and
\* the URLs as found, exactly when one of the four texts is non-empty or an
\* article URL or a quoted-post URL was detected; a record with all four
\* texts empty and no URL is never sent.
C23_SentIffTextOrUrl ==
  call = "processBookmark" =>
    IF HasText(args.tweetData) \/ args.articleUrl # EmptyUrl \/ args.quotedTweetUrl # EmptyUrl
    THEN ret = args
    ELSE ret = NoMessage

\* A record without any text was sent because an article URL was detected.
C23_Witness ==
  /\ call = "processBookmark"
  /\ ~HasText(args.tweetData)
  /\ args.articleUrl # EmptyUrl
  /\ args.quotedTweetUrl = EmptyUrl
  /\ ret = args

\* ---------------------------------------------------------------------------
\* Prompt selection
\* ---------------------------------------------------------------------------

PromptBuilt == prompt # NoPrompt

\* C24: once the prompt is built, its user content comes from the fetched
\* article body if there is one, else the primary text, else the card text,
\* else the fallback text; the quoted part is the fully fetched body if there
\* is one and the inline preview otherwise; the system template is the article
\* template iff isArticle, the quoted template iff not isArticle and
\* hasQuotedFull, the plain one otherwise; the token budget is 2000 iff
\* isArticle or hasQuotedFull and 1000 otherwise.
C24_PromptSelection ==
  PromptBuilt =>
    LET isArticle == HasBody(articleContent)
        hasQuotedFull == HasBody(quotedFullContent)
    IN /\ (prompt.source = "article") = isArticle
       /\ (prompt.source = "text") = (~isArticle /\ tweetData.text # "")
       /\ (prompt.source = "cardText") =
            (~isArticle /\ tweetData.text = "" /\ tweetData.cardText # "")
       /\ (prompt.source = "fallbackText") =
            (/\ ~isArticle /\ tweetData.text = "" /\ tweetData.cardText = ""
             /\ tweetData.fallbackText # "")
       /\ (prompt.quoted = "full") = hasQuotedFull
       /\ (prompt.quoted = "inline") = (~hasQuotedFull /\ tweetData.quotedText # "")
       /\ (prompt.template = "article") = isArticle
       /\ (prompt.template = "quoted") = (~isArticle /\ hasQuotedFull)
       /\ (prompt.template = "plain") = (~isArticle /\ ~hasQuotedFull)
       /\ (maxTokens = 2000) = (isArticle \/ hasQuotedFull)
       /\ (maxTokens = 1000) = (~isArticle /\ ~hasQuotedFull)

C24_Witness ==
  /\ PromptBuilt
  /\ HasBody(articleContent)
  /\ HasBody(quotedFullContent)
  /\ tweetData.text # ""
  /\ prompt.source = "article"
  /\ prompt.quoted = "full"
  /\ prompt.template = "article"
  /\ maxTokens = 2000

\* ---------------------------------------------------------------------------
\* Properties of buildFileName (checked under FileNameSpec)
\* ---------------------------------------------------------------------------

\* The part of a file name before its first '-'.
RECURSIVE HandlePart(_)
HandlePart(name) ==
  IF name = <<>> \/ name[1] = "-" THEN <<>> ELSE <<name[1]>> \o HandlePart(Tail(name))

\* The part between the handle and the '-YYYYMMDD-HHMMSS.md' ending.
TitlePart(name) == Slice(name, Len(HandlePart(name)) + 1, Len(name) - 19)

ForbiddenInNames == {"\\", "/", ":", "*", "?", "\"", "<", ">", "|"}

\* C25: the file name has none of the characters \ / : * ? " < > |, no
\* control character, does not start with a dot, has a handle of at most 30
\* characters and ends in '.md'.
C25_FileNameIsSafe ==
  call = "buildFileName" =>
    /\ \A i \in DOMAIN ret : ret[i] \notin ForbiddenInNames
    /\ \A i \in DOMAIN ret : ret[i] \notin {NUL, "\t", "\n", "\r", DEL}
    /\ ret[1] # "."
    /\ Len(HandlePart(ret)) <= 30
    /\ Len(ret) >= 3
    /\ SubSeq(ret, Len(ret) - 2, Len(ret)) = <<".", "m", "d">>

C25_Witness ==
  /\ call = "buildFileName"
  /\ HandleOf(args.post)[1] = "."
  /\ Len(HandleOf(args.post)) > 30
  /\ \E i \in DOMAIN args.post.text : args.post.text[i] \in ForbiddenInNames
  /\ \E i \in DOMAIN args.post.text : args.post.text[i] = NUL
  /\ ~args.isArticle
  /\ Len(HandlePart(ret)) = 30
  /\ TitlePart(ret) = <<"a", "_", "b", "_", "c", " ", "d", "e", "_", "_", "-", "f">>

\* The title buildFileName starts from.
GivenTitle == TitleOf(args.post, args.article, args.isArticle)

\* C26: the title part is never longer than 50 characters; a title of at most
\* 50 characters keeps its whole sanitized form; a longer one is cut to 50 and
\* then back to its last space only if that space is past position 20; a
\* title that sanitizes to nothing becomes 'untitled'.
C26_TitleTruncation ==
  call = "buildFileName" =>
    LET clean == SanitizedTitle(GivenTitle)
        cut == Slice(clean, 0, 50)
        lastSpace == lastIndexOf(cut, " ")
        title == TitlePart(ret)
    IN /\ Len(title) <= 50
       /\ (Len(GivenTitle) <= 50 /\ clean # <<>>) => title = clean
       /\ (Len(GivenTitle) > 50 /\ clean # <<>> /\ lastSpace > 20) =>
            title = SubSeq(cut, 1, lastSpace)
       /\ (Len(GivenTitle) > 50 /\ clean # <<>> /\ lastSpace <= 20) => title = cut
       /\ clean = <<>> => title = <<"u", "n", "t", "i", "t", "l", "e", "d">>

C26_Witness ==
  /\ call = "buildFileName"
  /\ GivenTitle = WithSpaceAt(51, 21)
  /\ TitlePart(ret) = Letters(21)

\* ---------------------------------------------------------------------------
\* Properties of stripArticleMetadataPrefix (checked under StripSpec)
\* ---------------------------------------------------------------------------

\* A metadata line as the contract lists them: blank, title, author, @handle,
\* the middle dot, a date, a follow/edited button, an engagement number.
ListedAsMetadata(line, title, author) ==
  LET text == Trim(line)
  IN \/ text = ""
     \/ Trim(title) # "" /\ text = Trim(title)
     \/ Trim(author) # "" /\ text = Trim(author)
     \/ text \in {"@alice", MiddleDot, "11 Feb 2026", "2 feb", "Follow", "follow", "Edited",
                  "27", "1,234", "302K"}

\* The number of metadata lines the text starts with.
RECURSIVE LeadingRun(_, _, _)
LeadingRun(lines, title, author) ==
  IF lines # <<>> /\ ListedAsMetadata(lines[1], title, author)
  THEN 1 + LeadingRun(Tail(lines), title, author)
  ELSE 0

StripTwice == StripLines(ret, args.title, args.author)

\* C27: stripping the stripped body again changes nothing, and the result is
\* the body from its first non-metadata line on, unchanged.
C27_StripIdempotent ==
  call = "stripArticleMetadataPrefix" =>
    LET run == LeadingRun(args.body, args.title, args.author)
    IN /\ StripTwice = ret
       /\ ret = AsText(SubSeq(args.body, run + 1, Len(args.body)))

\* C27 as the code has it: the leading metadata lines among the first 25 lines
\* are removed and the rest is returned with the whitespace at its two ends
\* trimmed; stripping again changes nothing when the body starts with at most
\* 25 metadata lines.
C27_StripWithinScan ==
  call = "stripArticleMetadataPrefix" =>
    LET run == LeadingRun(args.body, args.title, args.author)
        removed == IF run < 25 THEN run ELSE 25
    IN /\ ret = TrimText(SubSeq(args.body, removed + 1, Len(args.body)))
       /\ run <= 25 => StripTwice = ret

C27_Witness ==
  /\ call = "stripArticleMetadataPrefix"
  /\ LeadingRun(args.body, args.title, args.author) = 25
  /\ Len(args.body) = 28
  /\ args.body[1] = "Title"
  /\ ret = <<"Hello world", "27", "Following">>
  /\ StripTwice = ret

\* ---------------------------------------------------------------------------
\* Properties of the link escapers (checked under EscapeSpec)
\* ---------------------------------------------------------------------------

URIError == <<"<URIError>">>

\* Percent-decoding over the characters of the model: %28, %29 and %22 are
\* the escapes that decode; any other '%' is malformed.
RECURSIVE PercentDecode(_)
PercentDecode(s) ==
  IF s = <<>> THEN <<>>
  ELSE IF s[1] # "%"
  THEN LET rest == PercentDecode(Tail(s))
       IN IF rest = URIError THEN URIError ELSE <<s[1]>> \o rest
  ELSE IF Len(s) >= 3 /\ s[2] = "2" /\ s[3] \in {"2", "8", "9"}
  THEN LET rest == PercentDecode(SubSeq(s, 4, Len(s)))
           char == CASE s[3] = "8" -> "(" [] s[3] = "9" -> ")" [] OTHER -> "\""
       IN IF rest = URIError THEN URIError ELSE <<char>> \o rest
  ELSE URIError

RemoveBackslashes(s) == SelectSeq(s, LAMBDA c : c # "\\")

PrecededByOneBackslash(s, i) ==
  /\ i > 1
  /\ s[i - 1] = "\\"
  /\ i > 2 => s[i - 2] # "\\"

\* C28: the escaped URL has no '(' or ')'; in the escaped text every '[' and
\* ']' has exactly one backslash before it; percent-decoding the escaped URL
\* and removing the backslashes of the escaped text give back the input.
C28_EscapingReversible ==
  /\ call = "escapeMarkdownLinkUrl" =>
       /\ \A i \in DOMAIN ret : ret[i] \notin {"(", ")"}
       /\ PercentDecode(ret) = args
  /\ call = "escapeMarkdownLinkText" =>
       /\ \A i \in DOMAIN ret : ret[i] \in {"[", "]"} => PrecededByOneBackslash(ret, i)
       /\ RemoveBackslashes(ret) = args

\* ---------------------------------------------------------------------------
\* Properties of normalizeBaseUrl (checked under BaseUrlSpec)
\* ---------------------------------------------------------------------------

IsBlank(value) == \A i \in DOMAIN value : value[i] = " "

\* The value starts with 'scheme://'.
SchemeGiven(value) ==
  Len(value) >= 4 /\ IsWord(value[1]) /\ value[2] = ":" /\ value[3] = "/" /\ value[4] = "/"

OtherSchemeGiven(value) == SchemeGiven(value) /\ LowerCase(value[1]) \notin {"http", "https"}

\* The value with https:// in front when it names no scheme.
WithScheme(value) == IF SchemeGiven(value) THEN value ELSE <<"https", ":", "/", "/">> \o value

\* C29: the result is empty for a blank or unparseable value and for a value
\* with a scheme other than http/https; for every other value it is the
\* origin and path, without trailing slashes, of the value with https:// in
\* front when no scheme is given; a non-empty result is its own result.
C29_NormalizeBaseUrl ==
  call = "normalizeBaseUrl" =>
    LET url == ParseHttpUrl(WithScheme(args))
    IN /\ (IsBlank(args) \/ OtherSchemeGiven(args)) => ret = <<>>
       /\ (~OtherSchemeGiven(args) /\ ~url.ok) => ret = <<>>
       /\ (~OtherSchemeGiven(args) /\ url.ok) =>
            ret = OriginOfParsed(url) \o StripTrailingSlashes(url.pathname)
       /\ ret # <<>> => normalizeBaseUrl(ret) = ret

\* ---------------------------------------------------------------------------
\* Properties of isNewerVersion (checked under VersionSpec)
\* ---------------------------------------------------------------------------

\* The number a segment stands for; a segment that is no number counts as 0.
NumericValue(segment) ==
  IF segment = "2" THEN 2 ELSE IF segment = "10" THEN 10 ELSE 0

\* The first three segments as numbers, a missing one counting as 0.
Triple(version) ==
  [i \in 1..3 |-> IF i <= Len(version) THEN NumericValue(version[i]) ELSE 0]

LexGreater(a, b) ==
  \E i \in 1..3 : a[i] > b[i] /\ \A j \in 1..(i - 1) : a[j] = b[j]

\* C30: isNewerVersion(remote, local) is true exactly when the triple of
\* remote is lexicographically greater than that of local; it is false for
\* equal versions and never true in both directions.
C30_NewerIffGreater ==
  call = "isNewerVersion" =>
    /\ ret = LexGreater(Triple(args.remote), Triple(args.local))
    /\ args.remote = args.local => ~ret
    /\ ~(ret /\ isNewerVersion(args.local, args.remote))

C30_Witness ==
  /\ call = "isNewerVersion"
  /\ args.remote = <<"2", "beta", "10", "2">>
  /\ args.local = <<"2">>
  /\ ret = TRUE
  /\ ~isNewerVersion(args.local, args.remote)

\* ---------------------------------------------------------------------------
\* Properties of the summary cards (checked under CardSpec)
\* ---------------------------------------------------------------------------

CardsShowOwnContent ==
  /\ Len(activeCards) <= 3
  /\ \A i \in DOMAIN activeCards : activeCards[i].body[2] = activeCards[i].id

\* A response has arrived for a card that is no longer shown.
LateResponse == \E cardId \in inFlight \ CardIds(activeCards) : inFlight' = inFlight \ {cardId}

\* C31: every card shows the loading state or the content of the response to
\* its own click, there are never more than 3 active cards, and a response
\* for a dismissed card changes no card.
C31_CardsLoadIndependently ==
  /\ []CardsShowOwnContent
  /\ [][LateResponse => activeCards' = activeCards]_vars

C31_Witness ==
  /\ cardSeq = 4
  /\ 1 \in dropped
  /\ Len(activeCards) = 3
  /\ activeCards[1].id = 2
  /\ activeCards[1].body = <<"loading", 2>>
  /\ activeCards[3].body = <<"tldr", 4>>

\* ---------------------------------------------------------------------------
\* Properties of extractPageContent (checked under ExtractSpec)
\* ---------------------------------------------------------------------------

\* C32: the promise is resolved once, by the 16th poll at the latest, with
\* content or null; while it is unresolved fewer than 16 polls have run, and
\* once it is resolved the timer is cleared and no poll runs.
C32_PollLoopBounded ==
  /\ [](call = "extractPageContent" =>
          /\ resolves <= 1
          /\ attempts <= 16
          /\ pollTimer => (resolves = 0 /\ attempts < 16)
          /\ ~pollTimer => (resolves = 1 /\ (ret = NULL \/ ret.kind = "content")))
  /\ [][(call = "extractPageContent" /\ ~pollTimer) => attempts' = attempts]_vars

C32_Witness ==
  /\ call = "extractPageContent"
  /\ attempts = 16
  /\ resolves = 1
  /\ ~pollTimer
  /\ args.expectedId # ""
  /\ ~page.hrefHasId
  /\ page.container > 100
  /\ ret = NULL

\* C33: for an article URL no resolved value comes from the thread stage:
\* the result is article content of an article stage, last-resort content or
\* null, also when posts are rendered on the page.
C33_NoThreadForArticleUrl ==
  (call = "extractPageContent" /\ args.isArticleUrl /\ resolves = 1 /\ ret # NULL) =>
    ret.stage \in {"article", "headings", "fallback"}

C33_Witness ==
  /\ call = "extractPageContent"
  /\ args.isArticleUrl
  /\ resolves = 1
  /\ page.thread > 50
  /\ page.container <= 100
  /\ page.headings <= 200
  /\ attempts = 16
  /\ ret.kind = "content"
  /\ ret.stage = "fallback"

\* The stages that match on the page of the resolving poll.
ContainerMatches == page.container > 100

ThreadMatches == ~args.isArticleUrl /\ page.thread > 50

HeadingsMatch == page.headings > 200

Shortened(length) == IF length > 15000 THEN 15000 ELSE length

\* C34: the value resolved at a poll whose href check passed is that of the
\* first matching stage in the order article containers, thread collection,
\* heading-delimited layout; the last-resort fallback (the primary region's
\* text if longer than 200 characters, else null) is used only at the 16th
\* poll and only if no stage matched there; no body is longer than 15,000.
C34_StagePriority ==
  (call = "extractPageContent" /\ resolves = 1) =>
    /\ ret # NULL => ret.body <= 15000
    /\ (args.expectedId = "" \/ page.hrefHasId) =>
         /\ ContainerMatches =>
              ret = [kind |-> "content", stage |-> "article", body |-> Shortened(page.container)]
         /\ (~ContainerMatches /\ ThreadMatches) =>
              ret = [kind |-> "content", stage |-> "thread", body |-> Shortened(page.thread)]
         /\ (~ContainerMatches /\ ~ThreadMatches /\ HeadingsMatch) =>
              ret = [kind |-> "content", stage |-> "headings", body |-> Shortened(page.headings)]
         /\ (~ContainerMatches /\ ~ThreadMatches /\ ~HeadingsMatch) =>
              /\ attempts = 16
              /\ ret = IF page.region > 200
                       THEN [kind |-> "content", stage |-> "fallback",
                             body |-> Shortened(page.region)]
                       ELSE NULL
    /\ (ret # NULL /\ ret.stage = "fallback") =>
         (attempts = 16 /\ ~ContainerMatches /\ ~ThreadMatches /\ ~HeadingsMatch)

C34_Witness ==
  /\ call = "extractPageContent"
  /\ resolves = 1
  /\ attempts = 3
  /\ ~args.isArticleUrl
  /\ page.container = 100
  /\ page.thread = 20000
  /\ page.headings = 201
  /\ ret = [kind |-> "content", stage |-> "thread", body |-> 15000]

\* ------------------------------------------------------------------------
\* Properties of waitForTabLoad (checked under WaitSpec)

WaitResolved == resolves >= 1

TargetTabCloses == args.tabId \in openTabs /\ args.tabId \notin openTabs'

\* C35: waitForTabLoad always resolves: the tab's 'complete' status resolves
\* it, the tab's removal resolves it, and it has resolved once the timeout has
\* fired; after it has resolved neither listener is registered, also when the
\* timeout fires after an earlier resolution.
C35_WaitForTabLoadResolves ==
  /\ [](call = "waitForTabLoad" =>
          /\ WaitResolved => listeners = {}
          /\ ~loadTimer => WaitResolved)
  /\ [][call = "waitForTabLoad" /\ OnUpdated(args.tabId, "complete") => WaitResolved']_vars
  /\ [][call = "waitForTabLoad" /\ TargetTabCloses => WaitResolved']_vars
  /\ (call = "waitForTabLoad" ~> WaitResolved)

\* The tab completed its load, and the timeout fired afterwards.
C35_Witness ==
  /\ call = "waitForTabLoad"
  /\ args.tabId \in openTabs
  /\ resolves = 2
  /\ ~loadTimer
  /\ listeners = {}

\* ------------------------------------------------------------------------
\* Properties of the popup's clearHistory (checked under ClearSpec)

Clicked == clicks' = clicks + 1

ClearRequested == clearWrites' = clearWrites + 1

Unarmed == ~clearHistoryPending /\ ~clearHistoryTimer /\ btn = "plain"

Armed == clearHistoryPending /\ clearHistoryTimer /\ btn = "confirming"

\* C36: the popup writes the empty list only on a click that finds the
\* button armed, which is a click within 3 seconds of the click that armed
\* it; a click on the unarmed button only arms it; after a confirmed clear
\* and after the expiry of the 3 seconds the button is unarmed again.  The
\* stored list is emptied only by such a write.
C36_ClearNeedsConfirmation ==
  /\ [](Armed \/ Unarmed)
  /\ [](Armed => elapsed <= Seconds(ConfirmWindowMs))
  /\ [][ClearRequested => Clicked /\ Armed /\ Unarmed']_vars
  /\ [][Clicked /\ Unarmed => ~ClearRequested /\ Armed']_vars
  /\ [][Clicked /\ Armed => ClearRequested /\ Unarmed']_vars
  /\ [][Armed /\ Unarmed' /\ ~Clicked => elapsed >= Seconds(ConfirmWindowMs)]_vars
  /\ [][cleared' # cleared => clearWrites > 0]_vars

\* Three clicks and an expiry of the timer: one click wrote the empty list
\* over a stored history, and the button is unarmed.
C36_Witness ==
  /\ clicks = 3
  /\ clearWrites = 0
  /\ cleared # {}
  /\ history = <<>>
  /\ Unarmed

\* ------------------------------------------------------------------------
\* Properties of the clear among history saves (checked under ClearSpec)

\* C38: once the popup's write of the empty list has been applied, no entry
\* that was in the stored list before it is stored again, however the clear
\* and the saveToHistory calls in flight interleave.
C38_ClearedEntriesStayCleared == Range(history) \cap cleared = {}

\* ------------------------------------------------------------------------
\* Properties of the listener's responses (checked under SaveSpec)

SuccessResponse == [success |-> TRUE, tldr |-> outcome.tldr, mode |-> outcome.mode]

ErrorResponse == [success |-> FALSE, error |-> outcome.error]

\* C39: a GENERATE_TLDR message is answered by one sendResponse call: the
\* success response when handleTLDRRequest resolved, the error response
\* carrying the error's message when it rejected, and a response once sent is
\* not followed by another, whatever fails in the success continuation.
C39_ExactlyOneResponse ==
  /\ [](l_pc = "done" =>
          \/ h_pc = "resolved" /\ response = SuccessResponse
          \/ h_pc = "rejected" /\ response = ErrorResponse)
  /\ [](l_pc # "done" => response = NULL)
  /\ [][response # NULL => response' = response]_vars

\* ------------------------------------------------------------------------
\* Properties of the key migration and of the encryption key (checked under
\* KeySpec)

MigrationStarted == keyCall["migrate"].text # ""

MigrationCompleted ==
  /\ MigrationStarted
  /\ keyCall["migrate"].use = "decrypt" \/ keyCall["migrate"].pc \in {"localGet", "done"}

\* C37: a migration that found a plaintext apiKey in sync storage stores its
\* encrypted form locally before it removes the plaintext: at every point,
\* also after a failed step, sync storage holds the plaintext or local
\* storage holds an encrypted key (the migrated one, unless saveSettings has
\* stored another), and after a completed migration sync storage holds no
\* apiKey.
C37_MigrationKeepsKey ==
  /\ [](MigrationStarted =>
          \/ syncApiKey # ""
          \/ /\ localBlob # NULL
             /\ localBlob.text = "sk-old" \/ ~Inside("save", "idle"))
  /\ [](MigrationCompleted => syncApiKey = "")
  /\ [][syncApiKey # "" /\ syncApiKey' = "" =>
          /\ Inside("migrate", "remove")
          /\ localBlob # NULL
          /\ localBlob.text \in {"sk-old", "sk-new"}]_vars

\* The migration found a plaintext key and no encryption key, stored the
\* ciphertext, removed the plaintext and showed the decrypted key.
C37_Witness ==
  /\ keyCall["migrate"] = [pc |-> "done", key |-> 1, use |-> "decrypt", text |-> "sk-old",
                           blob |-> Cipher(1, "sk-old"), out |-> "sk-old"]
  /\ syncApiKey = ""
  /\ localBlob = Cipher(1, "sk-old")
  /\ Inside("save", "idle")

\* C40: however the callers of getOrCreateEncryptionKey interleave, at most
\* one encryption key is generated and stored, a stored key is never
\* replaced, and the stored ciphertext is decryptable with the stored key.
C40_SingleEncryptionKey ==
  /\ [](keySeq <= 1)
  /\ [][encKey # 0 => encKey' = encKey]_vars
  /\ [](localBlob # NULL => localBlob.key = encKey)

====
